---- MODULE Spec2Model ----
(***************************************************************************)
(* A model of the versio release engine: the StateWrite buffer and its     *)
(* commit sequence (state.rs), the release command (commands.rs) and the   *)
(* release planner (config.rs).                                            *)
(***************************************************************************)
EXTENDS Integers, Sequences, FiniteSets, TLC

\* ------------------------------------------------------------------ bounds
MaxWrites == 2        \* longest queue of file writes explored
MaxTagQueue == 2      \* longest tag_head_or_last queue explored

\* ----------------------------------------------------------------- domains
Projs == {"p1", "p2"}                 \* ProjectId values
Paths == {"f1", "f2"}                 \* files of the working tree
FileOf == [p \in Projs |-> IF p = "p1" THEN "f1" ELSE "f2"]    \* a project's version file
TagOf == [p \in Projs |-> IF p = "p1" THEN "p1-v" ELSE "p2-v"] \* a project's version tag
Contents == {"new"}                   \* content a queued write carries
PrevTag == "versio-prev"              \* options.prev_tag
ProjTags == {"p1-v", "p2-v"}          \* per-project version tags
LastOids == {2}                       \* commits after the previous release, before HEAD

SeqsUpTo(S, n) == UNION {[1..k -> S] : k \in 0..n}
PartialFns(S, T) == UNION {[D -> T] : D \in SUBSET S}
Put(f, k, v) == (k :> v) @@ f         \* map insert: k now maps to v
Some(v) == [some |-> TRUE, v |-> v]   \* Option::Some(v)
None == [some |-> FALSE, v |-> <<>>]  \* Option::None

\* ------------------------------------------------------------------- state
VARIABLES
  writes,            \* StateWrite.writes: Seq of FileWrite
  proj_writes,       \* StateWrite.proj_writes: set of ProjectId
  tag_head,          \* StateWrite.tag_head: Seq of tag
  tag_commit,        \* StateWrite.tag_commit: tag -> oid (a HashMap)
  tag_head_or_last,  \* StateWrite.tag_head_or_last: Seq of <<tag, ProjectId>>
  files,             \* the working tree: path -> content (no entry: no file)
  commits,           \* the Git history, oldest first; commit i holds tree commits[i]
  tags,              \* Git tags: tag -> oid (no entry: no such tag)
  last_commits,      \* the last_commits map handed to commit: ProjectId -> oid
  last,              \* what the last StateWrite call did (its outcome and its repo calls)
  plan,              \* Plan.incrs as release reads it: ProjectId -> Size
  change_logs,       \* the projects whose manifest entry sets change_log
  rel,               \* what the release command did (its result, per-project decisions)
  current,           \* PlanConsider.current: the manifest (projects, sizes)
  on_pr_sizes,       \* PlanConsider.on_pr_sizes: ProjectId -> SizedPr
  on_ineffective,    \* PlanConsider.on_ineffective: Option<SizedPr>
  on_commit,         \* PlanConsider.on_commit: Option<CommitData>
  incrs,             \* PlanConsider.incrs: ProjectId -> (size, last_commit, change_log)
  ineffective,       \* PlanConsider.ineffective: Seq of SizedPr
  pc,                \* where configure_plan stands, and the PRs it has handled
  on_line_commit,    \* LastCommitFinder.on_line_commit: Option<oid>
  line,              \* where find_last_commits stands in its walk
  pausefile,         \* .versio-paused: Option<CommitState>
  old_tags,          \* an OldTags index: by_proj and not_after
  sizing,            \* the last Size computation: its inputs and what it returned
  query              \* the last does_cover or validate call: its inputs and what it returned

swVars == <<writes, proj_writes, tag_head, tag_commit, tag_head_or_last>>
relVars == <<plan, change_logs, rel>>
planVars == <<current, on_pr_sizes, on_ineffective, on_commit, incrs, ineffective, pc>>
vars == <<writes, proj_writes, tag_head, tag_commit, tag_head_or_last,
          files, commits, tags, last_commits, last, plan, change_logs, rel,
          current, on_pr_sizes, on_ineffective, on_commit, incrs, ineffective, pc,
          on_line_commit, line, pausefile, old_tags, sizing, query>>
calcVars == <<old_tags, sizing, query>>
otherVars == <<on_line_commit, line, pausefile, calcVars>>
repoVars == <<files, commits, tags, last_commits, last>>

HeadOid(cs) == Len(cs)

\* ----------------------------------------------------------- Repo adapter
\* repo.commit(): one new commit holding the working tree.
RepoCommit(cs, fs) == Append(cs, fs)
\* repo.update_tag(tag, oid)
RepoUpdateTag(tg, tag, oid) == Put(tg, tag, oid)
\* repo.update_tag_head(tag)
RepoUpdateTagHead(tg, tag, cs) == RepoUpdateTag(tg, tag, HeadOid(cs))

\* -------------------------------------------------------------- FileWrite
\* FileWrite::write. Write overwrites (or creates) the file; Update reads the
\* file first (PickPath::write_value), so it fails when the file is missing.
FileWriteCanRun(fs, w) == w.kind = "Write" \/ w.path \in DOMAIN fs
FileWriteApply(fs, w) == Put(fs, w.path, w.val)

\* The record of one repository or file-system call made by commit.
WriteEv(w) == [op |-> "write", queue |-> "writes", name |-> w.path, oid |-> HeadOid(<<>>)]
CommitEv(oid) == [op |-> "commit", queue |-> "writes", name |-> "", oid |-> oid]
TagEv(q, tag, oid) == [op |-> "tag", queue |-> q, name |-> tag, oid |-> oid]

\* `for write in &self.writes { write.write()?; }`: the writes in insertion
\* order, stopping at the first that fails. fail is the index of a write whose
\* I/O fails (none when it is no index of ws).
RECURSIVE ApplyWrites(_, _, _, _)
ApplyWrites(fs, ws, i, fail) ==
  IF i > Len(ws) THEN [files |-> fs, done |-> Len(ws), ok |-> TRUE]
  ELSE IF i = fail \/ ~FileWriteCanRun(fs, ws[i])
       THEN [files |-> fs, done |-> i - 1, ok |-> FALSE]
  ELSE ApplyWrites(FileWriteApply(fs, ws[i]), ws, i + 1, fail)

\* `for tag in ... { repo.update_tag(...)?; }`: the tag moves of one queue in
\* order, stopping at the first that fails. targets is a Seq of <<tag, oid>>.
RECURSIVE ApplyTags(_, _, _, _)
ApplyTags(tg, targets, i, fail) ==
  IF i > Len(targets) THEN [tags |-> tg, done |-> Len(targets), ok |-> TRUE]
  ELSE IF i = fail THEN [tags |-> tg, done |-> i - 1, ok |-> FALSE]
  ELSE ApplyTags(RepoUpdateTag(tg, targets[i][1], targets[i][2]), targets, i + 1, fail)

TagEvents(q, targets, n) == [i \in 1..n |-> TagEv(q, targets[i][1], targets[i][2])]

\* A commit made whether or not anything was written.
did_write_always(ws) == TRUE

\* `let did_write = !self.writes.is_empty();`
did_write(ws) == Len(ws) > 0

\* The written-project test dropped: the last commit wins whenever it is known.
HeadOrLastTarget_lastFirst(proj_id, pw, lc, cs) ==
  IF proj_id \in DOMAIN lc THEN lc[proj_id] ELSE HeadOid(cs)

\* The last commit never looked at: every entry goes to HEAD.
HeadOrLastTarget_alwaysHead(proj_id, pw, lc, cs) == HeadOid(cs)

\* The commit a tag_head_or_last entry goes to.
HeadOrLastTarget(proj_id, pw, lc, cs) ==
  IF proj_id \in pw THEN HeadOid(cs)
  ELSE IF proj_id \in DOMAIN lc THEN lc[proj_id]
  ELSE HeadOid(cs)

\* A HashMap is walked in an order the program does not choose.
RECURSIVE MapOrder(_)
MapOrder(m) ==
  IF DOMAIN m = {} THEN <<>>
  ELSE LET k == CHOOSE x \in DOMAIN m : TRUE
       IN  <<<<k, m[k]>>>> \o MapOrder([x \in DOMAIN m \ {k} |-> m[x]])

\* ---------------------------------------------------- StateWrite::commit
\* A run of commit: the buffer, the repository, the error it has returned with
\* ("none" while it is still running), the calls made and how many fallible
\* calls were made so far. fail numbers the fallible call that fails (0: none).
StartRun(sw, repo) ==
  [sw |-> sw, repo |-> repo, err |-> "none", did |-> FALSE, trace |-> <<>>, ops |-> HeadOid(<<>>)]

\* Step 1: apply the queued writes, then clear the queue.
StepWrites(run, fail) ==
  LET w == ApplyWrites(run.repo.files, run.sw.writes, 1, fail - run.ops)
      ev == [i \in 1..w.done |-> WriteEv(run.sw.writes[i])]
      ran == [run EXCEPT !.repo.files = w.files, !.trace = @ \o ev, !.ops = @ + w.done]
  IN  IF run.err # "none" THEN run
      ELSE IF ~w.ok THEN [ran EXCEPT !.err = "write"]
      ELSE [ran EXCEPT !.did = did_write(run.sw.writes), !.sw.writes = <<>>]

\* Step 2: `if did_write { repo.commit()?; }`
StepCommit(run, fail) ==
  IF run.err # "none" \/ ~run.did THEN run
  ELSE IF fail = run.ops + 1 THEN [run EXCEPT !.err = "commit"]
  ELSE [run EXCEPT !.repo.commits = RepoCommit(@, run.repo.files),
                   !.trace = Append(@, CommitEv(HeadOid(run.repo.commits) + 1)),
                   !.ops = @ + 1]

\* One tag queue: its moves in order; cleared only when all of them succeeded.
TagStage(run, fail, q, targets) ==
  LET t == ApplyTags(run.repo.tags, targets, 1, fail - run.ops)
  IN  [run EXCEPT !.repo.tags = t.tags,
                  !.trace = @ \o TagEvents(q, targets, t.done),
                  !.ops = @ + t.done,
                  !.err = IF t.ok THEN "none" ELSE q]

\* Step 3: every tag_head tag goes to HEAD.
StepTagHead(run, fail) ==
  LET targets == [i \in 1..Len(run.sw.tag_head) |->
                    <<run.sw.tag_head[i], HeadOid(run.repo.commits)>>]
      r == TagStage(run, fail, "tag_head", targets)
  IN  IF run.err # "none" THEN run
      ELSE IF r.err # "none" THEN r
      ELSE [r EXCEPT !.sw.tag_head = <<>>]

\* The tag loop run before the result of the write and commit steps is looked at.
StepTagHeadOrLast_beforeCheck(run, fail, lc) ==
  LET q == run.sw.tag_head_or_last
      targets == [i \in 1..Len(q) |->
                    <<q[i][1], HeadOrLastTarget(q[i][2], run.sw.proj_writes, lc, run.repo.commits)>>]
      r == TagStage(run, IF run.err # "none" THEN HeadOid(<<>>) ELSE fail, "tag_head_or_last", targets)
  IN  IF run.err # "none" THEN [r EXCEPT !.err = run.err]
      ELSE IF r.err # "none" THEN r
      ELSE [r EXCEPT !.sw.tag_head_or_last = <<>>, !.sw.proj_writes = {}]

\* Step 4: every tag_head_or_last tag goes to HEAD or to the project's last commit.
StepTagHeadOrLast(run, fail, lc) ==
  LET q == run.sw.tag_head_or_last
      targets == [i \in 1..Len(q) |->
                    <<q[i][1], HeadOrLastTarget(q[i][2], run.sw.proj_writes, lc, run.repo.commits)>>]
      r == TagStage(run, fail, "tag_head_or_last", targets)
  IN  IF run.err # "none" THEN run
      ELSE IF r.err # "none" THEN r
      ELSE [r EXCEPT !.sw.tag_head_or_last = <<>>, !.sw.proj_writes = {}]

\* Step 5: every tag_commit tag goes to its own oid.
StepTagCommit(run, fail) ==
  LET r == TagStage(run, fail, "tag_commit", MapOrder(run.sw.tag_commit))
  IN  IF run.err # "none" THEN run
      ELSE IF r.err # "none" THEN r
      ELSE [r EXCEPT !.sw.tag_commit = <<>>]

\* prev_tag moved even though an earlier step returned its error.
StepPrevTag_always(run, fail, prev_tag) ==
  LET r == TagStage(run, IF run.err # "none" THEN HeadOid(<<>>) ELSE fail, "prev_tag",
                    <<<<prev_tag, HeadOid(run.repo.commits)>>>>)
  IN  IF run.err # "none" THEN [r EXCEPT !.err = run.err] ELSE r

\* prev_tag moved only when this call made a commit.
StepPrevTag_onlyAfterCommit(run, fail, prev_tag) ==
  IF run.err # "none" \/ ~run.did THEN run
  ELSE TagStage(run, fail, "prev_tag", <<<<prev_tag, HeadOid(run.repo.commits)>>>>)

\* Step 6: `repo.update_tag_head(prev_tag)?;`
StepPrevTag(run, fail, prev_tag) ==
  IF run.err # "none" THEN run
  ELSE TagStage(run, fail, "prev_tag", <<<<prev_tag, HeadOid(run.repo.commits)>>>>)

\* StateWrite::commit(repo, prev_tag, last_commits)
commit(sw, repo, prev_tag, lc, fail) ==
  StepPrevTag(
    StepTagCommit(
      StepTagHeadOrLast(
        StepTagHead(StepCommit(StepWrites(StartRun(sw, repo), fail), fail), fail),
        fail, lc),
      fail),
    fail, prev_tag)

\* The fallible calls a commit of this buffer makes when none of them fails.
NumOps(sw) ==
  Len(sw.writes) + (IF did_write(sw.writes) THEN 1 ELSE 0) + Len(sw.tag_head)
    + Len(sw.tag_head_or_last) + Cardinality(DOMAIN sw.tag_commit) + 1

\* StateWrite::new()
StateWriteNew ==
  [writes |-> <<>>, proj_writes |-> {}, tag_head |-> <<>>, tag_commit |-> <<>>,
   tag_head_or_last |-> <<>>]

ThisWrite ==
  [writes |-> writes, proj_writes |-> proj_writes, tag_head |-> tag_head,
   tag_commit |-> tag_commit, tag_head_or_last |-> tag_head_or_last]
ThisRepo == [files |-> files, commits |-> commits, tags |-> tags]

NoPre == [tags |-> <<>>, head |-> HeadOid(<<>>), writes |-> <<>>, proj_writes |-> {},
          tag_head |-> <<>>, tag_commit |-> <<>>, tag_head_or_last |-> <<>>, dirty |-> FALSE]
Queued(op) == [op |-> op, err |-> "none", crashed |-> FALSE, trace |-> <<>>, pre |-> NoPre]

\* StateWrite::write_file(file, content, proj_id) on the buffer sw
write_file(sw, file, content, proj_id) ==
  [sw EXCEPT !.writes = Append(@, [kind |-> "Write", path |-> file, val |-> content]),
             !.proj_writes = @ \cup {proj_id}]

\* StateWrite::update_mark(pick, content, proj_id) on the buffer sw
update_mark(sw, file, content, proj_id) ==
  [sw EXCEPT !.writes = Append(@, [kind |-> "Update", path |-> file, val |-> content]),
             !.proj_writes = @ \cup {proj_id}]

\* StateWrite::tag_head_or_last(tag, proj) on the buffer sw
push_tag_head_or_last(sw, tag, proj) ==
  [sw EXCEPT !.tag_head_or_last = Append(@, <<tag, proj>>)]

\* ------------------------------------------------------------- operations
\* StateWrite::write_file(file, content, proj_id)
WriteFile(file, content, proj_id) ==
  /\ last.op # "commit"
  /\ Len(writes) < MaxWrites
  /\ writes' = write_file(ThisWrite, file, content, proj_id).writes
  /\ proj_writes' = write_file(ThisWrite, file, content, proj_id).proj_writes
  /\ last' = Queued("queue")
  /\ UNCHANGED <<tag_head, tag_commit, tag_head_or_last, files, commits, tags,
                 last_commits, relVars, planVars, otherVars>>

\* StateWrite::update_mark(pick, content, proj_id)
UpdateMark(file, content, proj_id) ==
  /\ last.op # "commit"
  /\ Len(writes) < MaxWrites
  /\ writes' = update_mark(ThisWrite, file, content, proj_id).writes
  /\ proj_writes' = update_mark(ThisWrite, file, content, proj_id).proj_writes
  /\ last' = Queued("queue")
  /\ UNCHANGED <<tag_head, tag_commit, tag_head_or_last, files, commits, tags,
                 last_commits, relVars, planVars, otherVars>>

\* StateWrite::tag_head_or_last(tag, proj)
TagHeadOrLast(tag, proj) ==
  /\ last.op # "commit"
  /\ Len(tag_head_or_last) < MaxTagQueue
  /\ tag_head_or_last' = push_tag_head_or_last(ThisWrite, tag, proj).tag_head_or_last
  /\ last' = Queued("queue")
  /\ UNCHANGED <<writes, proj_writes, tag_head, tag_commit, files, commits, tags,
                 last_commits, relVars, planVars, otherVars>>

\* StateWrite::commit(repo, prev_tag, last_commits): it returns Ok, returns the
\* error of the call that failed, or the process dies at that call (crashed),
\* which loses the buffer and leaves the repository as the calls made left it.
Commit(fail, crashed) ==
  \E run \in {commit(ThisWrite, ThisRepo, PrevTag, last_commits, fail)} :
    \E sw \in {IF crashed THEN StateWriteNew ELSE run.sw} :
      /\ ~last.crashed
      /\ crashed => run.err # "none"
      /\ writes' = sw.writes
      /\ proj_writes' = sw.proj_writes
      /\ tag_head' = sw.tag_head
      /\ tag_commit' = sw.tag_commit
      /\ tag_head_or_last' = sw.tag_head_or_last
      /\ files' = run.repo.files
      /\ commits' = run.repo.commits
      /\ tags' = run.repo.tags
      /\ last' = [op |-> "commit", err |-> run.err, crashed |-> crashed, trace |-> run.trace,
                  pre |-> [tags |-> tags, head |-> HeadOid(commits), writes |-> writes,
                           proj_writes |-> proj_writes,
                           tag_head |-> tag_head, tag_commit |-> tag_commit,
                           tag_head_or_last |-> tag_head_or_last,
                           dirty |-> files # commits[HeadOid(commits)]]]
      /\ UNCHANGED <<last_commits, relVars, planVars, otherVars>>

InitFiles == "f1" :> "old"

\* No manifest loaded, no plan being built.
NoConfig == [projects |-> <<>>, sizes |-> <<>>]
NoFullPr == [number |-> 0, closed_at |-> 0, commits |-> <<>>]
NotPlanning == [at |-> "idle", pr |-> NoFullPr, ci |-> 0, fi |-> 0, done |-> <<>>]
\* No walk for last commits under way.
NoLine == [at |-> "idle", walk |-> <<>>, ci |-> 0, fi |-> 0]
\* OldTags::empty()
OldTagsEmpty == [by_proj |-> <<>>, not_after |-> <<>>]
NoSizing == [op |-> "idle"]
NoQuery == [op |-> "idle"]
CalcIdle ==
  /\ old_tags = OldTagsEmpty
  /\ sizing = NoSizing
  /\ query = NoQuery
OtherIdle ==
  /\ on_line_commit = None
  /\ line = NoLine
  /\ pausefile = None
  /\ CalcIdle

\* PlanConsider::new(prev, current), for the manifest cfg, about to take its step `at`.
PlanConsiderNew(cfg, at) ==
  /\ current = cfg
  /\ on_pr_sizes = <<>>
  /\ on_ineffective = None
  /\ on_commit = None
  /\ incrs = <<>>
  /\ ineffective = <<>>
  /\ pc = [NotPlanning EXCEPT !.at = at]
NoRelease == [op |-> "idle", result |-> "ok", err |-> "none", dry |-> FALSE,
              decided |-> <<>>, curt |-> <<>>, prev |-> <<>>]

Init ==
  /\ writes = <<>>
  /\ proj_writes = {}
  /\ tag_head = <<>>
  /\ tag_commit = <<>>
  /\ tag_head_or_last = <<>>
  /\ files = InitFiles
  /\ commits = <<InitFiles, InitFiles, InitFiles>>
  /\ tags = (PrevTag :> 1)
  /\ last_commits \in PartialFns(Projs, LastOids)
  /\ last = Queued("queue")
  /\ plan = <<>>
  /\ change_logs = {}
  /\ rel = NoRelease
  /\ PlanConsiderNew(NoConfig, "idle")
  /\ OtherIdle

Next ==
  \/ \E c \in Contents, p \in Projs : WriteFile(FileOf[p], c, p)
  \/ \E c \in Contents, p \in Projs : UpdateMark(FileOf[p], c, p)
  \/ \E p \in Projs : TagHeadOrLast(TagOf[p], p)
  \/ \E fail \in 0..NumOps(ThisWrite), crashed \in BOOLEAN : Commit(fail, crashed)

Spec == Init /\ [][Next]_vars

\* ------------------------------------------------------------------- Size
Sizes == {"Fail", "Major", "Minor", "Patch", "None"}

\* A version string is held as the Seq of its '.'-separated numbers.
Versions == {<<1, 2, 3>>, <<2, 0, 0>>}
SizeOk(v) == [ok |-> TRUE, val |-> v]
SizeErr == [ok |-> FALSE, val |-> <<>>]

\* Within release a version is held parsed and stays far from the top of the
\* range; the functions on the strings themselves are Size_parts, Size_apply
\* and Size_less_than below.
\* Size::parts(v): the three components, or the error "Not a 3-part version".
parts(v) == IF Len(v) # 3 THEN SizeErr ELSE SizeOk(<<v[1], v[2], v[3]>>)

\* Size::less_than(v1, v2)
less_than(v1, v2) ==
  LET p1 == parts(v1).val
      p2 == parts(v2).val
  IN  IF ~parts(v1).ok \/ ~parts(v2).ok THEN SizeErr
      ELSE SizeOk(p1[1] < p2[1]
                    \/ (p1[1] = p2[1] /\ (p1[2] < p2[2] \/ (p1[2] = p2[2] /\ p1[3] < p2[3]))))

\* Size::apply(self, v)
apply(size, v) ==
  LET p == parts(v).val
  IN  IF ~parts(v).ok THEN SizeErr
      ELSE CASE size = "Major" -> SizeOk(<<p[1] + 1, 0, 0>>)
             [] size = "Minor" -> SizeOk(<<p[1], p[2] + 1, 0>>)
             [] size = "Patch" -> SizeOk(<<p[1], p[2], p[3] + 1>>)
             [] size = "None" -> SizeOk(<<p[1], p[2], p[3]>>)
             [] size = "Fail" -> SizeErr

\* ---------------------------------------------------------------- release
TagPrefix == [p \in Projs |-> p]                                 \* Project.tag_prefix
LogOf == [p \in Projs |-> IF p = "p1" THEN "log1" ELSE "log2"]   \* Project.change_log
ChangeLogHtml == <<>>                                            \* the changelog text

\* format!("{}-v{}", tag_prefix, val)
TagName(prefix, v) ==
  prefix \o "-v" \o ToString(v[1]) \o "." \o ToString(v[2]) \o "." \o ToString(v[3])

\* curt_config.get_value(id): the version in the working tree.
CurtVers(id) == files[FileOf[id]]
\* prev_config.get_value(id): the version in the tree prev_tag points at, if any.
PrevVers(id) ==
  IF PrevTag \in DOMAIN tags /\ FileOf[id] \in DOMAIN commits[tags[PrevTag]]
  THEN Some(commits[tags[PrevTag]][FileOf[id]]) ELSE None

\* Project::forward_tag: queue the version tag of a project with a tag_prefix.
forward_tag(sw, id, vers) == push_tag_head_or_last(sw, TagName(TagPrefix[id], vers), id)
\* Mono::set_by_id(id, val): queue the mark update, then the tag.
Mono_set_by_id(sw, id, val) == forward_tag(update_mark(sw, FileOf[id], val, id), id, val)
\* Mono::forward_by_id(id, val): queue the tag only.
Mono_forward_by_id(sw, id, val) == forward_tag(sw, id, val)
\* Mono::write_changelog(id, changelog): queue the changelog file, if configured.
Mono_write_changelog(sw, id) ==
  IF id \in change_logs THEN write_file(sw, LogOf[id], ChangeLogHtml, id) ELSE sw

\* Every project set to its target, never forwarded.
Decide_alwaysTarget(size, curt, prev) ==
  IF size = "None" THEN [how |-> "no_change", vers |-> curt]
  ELSE IF prev.some
       THEN IF ~apply(size, prev.v).ok THEN [how |-> "fail", vers |-> curt]
            ELSE [how |-> "changed", vers |-> apply(size, prev.v).val]
  ELSE [how |-> "new", vers |-> curt]

\* The branch release takes for one project, and the version it settles on.
Decide(size, curt, prev) ==
  IF size = "None" THEN [how |-> "no_change", vers |-> curt]
  ELSE IF prev.some
       THEN IF ~apply(size, prev.v).ok THEN [how |-> "fail", vers |-> curt]
            ELSE IF less_than(curt, apply(size, prev.v).val).val
                 THEN [how |-> "changed", vers |-> apply(size, prev.v).val]
                 ELSE [how |-> "forward", vers |-> curt]
  ELSE [how |-> "new", vers |-> curt]

\* `for (id, (size, changelog)) in plan.incrs()`: the projects in the order the
\* map yields them. abortAt is the position at which a helper call (changelog,
\* project lookup, slicing, reading a value, restrictions) returns an error.
RECURSIVE ReleaseLoop(_, _, _, _, _)
ReleaseLoop(order, i, sw, decided, abortAt) ==
  IF i > Len(order) THEN [sw |-> sw, decided |-> decided, err |-> "none"]
  ELSE LET id == order[i]
           sw1 == Mono_write_changelog(sw, id)
           d == Decide(plan[id], CurtVers(id), PrevVers(id))
           sw2 == IF d.how = "changed" THEN Mono_set_by_id(sw1, id, d.vers)
                  ELSE IF d.how \in {"forward", "new"} THEN Mono_forward_by_id(sw1, id, d.vers)
                  ELSE sw1
       IN  IF abortAt = i THEN [sw |-> sw1, decided |-> decided, err |-> "helper"]
           ELSE IF d.how = "fail" THEN [sw |-> sw1, decided |-> decided, err |-> "size_fail"]
           ELSE ReleaseLoop(order, i + 1, sw2, Put(decided, id, d), abortAt)

Orders(S) == {o \in [1..Cardinality(S) -> S] : \A i, j \in DOMAIN o : i # j => o[i] # o[j]}

\* release(pref_vcs, all, dry, pause) with pause = false. branch_ok: check_branch
\* passes. fail: the call of StateWrite.commit that fails (0: none).
Release(dry, order, branch_ok, abortAt, fail) ==
  /\ rel.op = "idle"
  /\ \E loop \in {ReleaseLoop(order, 1, StateWriteNew, <<>>, abortAt)} :
    \E run \in {commit(loop.sw, ThisRepo, PrevTag, last_commits, fail)} :
      LET planned == branch_ok /\ DOMAIN plan # {}
          commits_now == planned /\ loop.err = "none" /\ ~dry
          err == IF ~branch_ok THEN "branch"
                 ELSE IF DOMAIN plan = {} THEN "none"
                 ELSE IF loop.err # "none" THEN loop.err
                 ELSE IF dry THEN "none"
                 ELSE run.err
      IN  /\ ~planned => abortAt = 0
          /\ ~commits_now => fail = 0
          /\ fail <= NumOps(loop.sw)
          /\ files' = IF commits_now THEN run.repo.files ELSE files
          /\ commits' = IF commits_now THEN run.repo.commits ELSE commits
          /\ tags' = IF commits_now THEN run.repo.tags ELSE tags
          /\ last' = IF commits_now
                     THEN [op |-> "commit", err |-> run.err, crashed |-> FALSE,
                           trace |-> run.trace,
                           pre |-> [tags |-> tags, head |-> HeadOid(commits),
                                    writes |-> loop.sw.writes,
                                    proj_writes |-> loop.sw.proj_writes,
                                    tag_head |-> loop.sw.tag_head,
                                    tag_commit |-> loop.sw.tag_commit,
                                    tag_head_or_last |-> loop.sw.tag_head_or_last,
                                    dirty |-> files # commits[HeadOid(commits)]]]
                     ELSE last
          /\ rel' = [op |-> "release",
                     result |-> IF err = "none" THEN "ok" ELSE "err",
                     err |-> err, dry |-> dry,
                     decided |-> IF planned THEN loop.decided ELSE <<>>,
                     curt |-> [p \in Projs |-> CurtVers(p)],
                     prev |-> [p \in Projs |-> PrevVers(p)]]
          /\ UNCHANGED <<swVars, last_commits, plan, change_logs, planVars, otherVars>>

InitRelease ==
  /\ writes = <<>>
  /\ proj_writes = {}
  /\ tag_head = <<>>
  /\ tag_commit = <<>>
  /\ tag_head_or_last = <<>>
  /\ files \in [Paths -> Versions]
  /\ \E old \in PartialFns(Paths, {<<1, 2, 3>>}) : commits = <<old, files, files>>
  /\ tags = (PrevTag :> 1)
  /\ last_commits \in PartialFns({"p1"}, LastOids)
  /\ last = Queued("queue")
  /\ plan \in PartialFns(Projs, Sizes)
  /\ change_logs \in SUBSET {"p1"}
  /\ rel = NoRelease
  /\ PlanConsiderNew(NoConfig, "idle")
  /\ OtherIdle

\* Most calls one release hands to commit: per project a changelog write, a mark
\* update and a tag; the git commit and the prev_tag update.
MaxReleaseOps == Cardinality(Projs) + Cardinality(Projs) + Cardinality(Projs) + Len(<<"commit", "prev_tag">>)

NextRelease ==
  rel.op = "idle" /\ \E dry \in BOOLEAN, order \in Orders(DOMAIN plan), branch_ok \in BOOLEAN,
     abortAt \in 0..Cardinality(Projs), fail \in 0..MaxReleaseOps :
    Release(dry, order, branch_ok, abortAt, fail)

SpecRelease == InitRelease /\ [][NextRelease]_vars

\* ----------------------------------------------------- pause, resume, abort
MaxCommits == 4                       \* most commits a history grows to

\* The check that lets every command through.
sanity_check_never(pf) == TRUE

\* sanity_check(): fails when the pausefile exists.
sanity_check(pf) == ~pf.some

\* CommitState: what is left of a commit once the files are written.
CommitState(run, advance, prev_tag, lc) ==
  [sw |-> run.sw, did |-> run.did, advance |-> advance, prev_tag |-> prev_tag,
   last_commits |-> lc]

\* CommitState::resume(repo): the Git commit, the three tag queues, then
\* prev_tag when the commit advances it. from: the run the state was taken of.
CommitState_resume(cs, from, fail) ==
  LET run == [from EXCEPT !.sw = cs.sw, !.did = cs.did]
      tagged == StepTagCommit(
                  StepTagHeadOrLast(StepTagHead(StepCommit(run, fail), fail), fail,
                                    cs.last_commits),
                  fail)
  IN  IF cs.advance THEN StepPrevTag(tagged, fail, cs.prev_tag) ELSE tagged

\* Mono::commit(advance, pause): write the files; then either leave the rest
\* in the pausefile or carry it out.
Mono_commit(sw, repo, advance, pause, lc, fail) ==
  LET wrote == StepWrites(StartRun(sw, repo), fail)
      cs == CommitState(wrote, advance, PrevTag, lc)
  IN  IF wrote.err # "none" THEN [run |-> wrote, pf |-> None]
      ELSE IF pause THEN [run |-> wrote, pf |-> Some(cs)]
      ELSE [run |-> CommitState_resume(cs, wrote, fail), pf |-> None]

\* What a command leaves in `rel`.
Outcome(op, err, dry, decided) ==
  [op |-> op, result |-> IF err = "none" THEN "ok" ELSE "err", err |-> err, dry |-> dry,
   decided |-> decided,
   curt |-> [p \in Projs |-> CurtVers(p)], prev |-> [p \in Projs |-> PrevVers(p)]]

\* What a run leaves in `last`.
Ran(op, run, sw) ==
  [op |-> op, err |-> run.err, crashed |-> FALSE, trace |-> run.trace,
   pre |-> [tags |-> tags, head |-> HeadOid(commits), writes |-> sw.writes,
            proj_writes |-> sw.proj_writes, tag_head |-> sw.tag_head,
            tag_commit |-> sw.tag_commit, tag_head_or_last |-> sw.tag_head_or_last,
            dirty |-> files # commits[HeadOid(commits)]]]

\* A command turned away at entry: nothing but its outcome changes.
Refused(op) ==
  /\ rel' = Outcome(op, "paused", FALSE, <<>>)
  /\ UNCHANGED <<files, commits, tags, last, pausefile>>

\* `versio release [--dry-run] [--pause]`: sanity_check, then release.
CmdRelease(dry, pause, order, fail) ==
  /\ HeadOid(commits) < MaxCommits
  /\ IF ~sanity_check(pausefile) THEN Refused("release")
     ELSE \E loop \in {ReleaseLoop(order, 1, StateWriteNew, <<>>, 0)} :
          \E m \in {Mono_commit(loop.sw, ThisRepo, TRUE, pause, last_commits, fail)} :
            LET commits_now == DOMAIN plan # {} /\ loop.err = "none" /\ ~dry
                err == IF DOMAIN plan = {} THEN "none"
                       ELSE IF loop.err # "none" THEN loop.err
                       ELSE IF dry THEN "none"
                       ELSE m.run.err
            IN  /\ ~commits_now => fail = 0
                /\ fail <= NumOps(loop.sw)
                /\ files' = IF commits_now THEN m.run.repo.files ELSE files
                /\ commits' = IF commits_now THEN m.run.repo.commits ELSE commits
                /\ tags' = IF commits_now THEN m.run.repo.tags ELSE tags
                /\ pausefile' = IF commits_now THEN m.pf ELSE pausefile
                /\ last' = IF commits_now THEN Ran("commit", m.run, loop.sw) ELSE last
                /\ rel' = Outcome(IF pause THEN "pause" ELSE "release", err, dry,
                                  IF DOMAIN plan # {} THEN loop.decided ELSE <<>>)
  /\ UNCHANGED <<swVars, last_commits, plan, change_logs, planVars, on_line_commit, line, calcVars>>

\* `versio set --id <id> <value>`: sanity_check, then set.
CmdSet(id, val, fail) ==
  /\ HeadOid(commits) < MaxCommits
  /\ IF ~sanity_check(pausefile) THEN Refused("set")
     ELSE \E sw \in {Mono_set_by_id(StateWriteNew, id, val)} :
          \E m \in {Mono_commit(sw, ThisRepo, FALSE, FALSE, last_commits, fail)} :
            /\ fail <= NumOps(sw) - 1
            /\ files' = m.run.repo.files
            /\ commits' = m.run.repo.commits
            /\ tags' = m.run.repo.tags
            /\ pausefile' = m.pf
            /\ last' = Ran("commit", m.run, sw)
            /\ rel' = Outcome("set", m.run.err, FALSE, <<>>)
  /\ UNCHANGED <<swVars, last_commits, plan, change_logs, planVars, on_line_commit, line, calcVars>>

\* The name the pausefile has in the working tree.
PauseFilename == ".versio-paused"

\* The working tree a Git commit takes: the tracked files, and the pausefile
\* when it is there.
WorkTree(fs, pf) == IF pf.some THEN Put(fs, PauseFilename, <<0, 0, 0>>) ELSE fs
\* The tracked files of a working tree.
TrackedFiles(tree) == [f \in DOMAIN tree \ {PauseFilename} |-> tree[f]]

\* A resume that leaves the pausefile in place.
remove_pausefile_kept(pf) == pf

\* `remove_file(".versio-paused")?` (commands.rs 277), once the CommitState has
\* been read and before commit.resume: the pausefile is gone.
remove_pausefile(pf) == None

\* resume(): read the pausefile, remove it, then carry out what it holds.
CmdResume(fail) ==
  /\ IF ~pausefile.some
     THEN /\ fail = 0
          /\ rel' = Outcome("resume", "nopause", FALSE, <<>>)
          /\ UNCHANGED <<files, commits, tags, last, pausefile>>
     ELSE \E run \in {CommitState_resume(
                         pausefile.v,
                         StartRun(pausefile.v.sw,
                                  [ThisRepo EXCEPT
                                     !.files = WorkTree(files, remove_pausefile(pausefile))]),
                         fail)} :
            /\ fail <= NumOps(pausefile.v.sw)
            /\ pausefile' = remove_pausefile(pausefile)
            /\ files' = TrackedFiles(run.repo.files)
            /\ commits' = run.repo.commits
            /\ tags' = run.repo.tags
            /\ last' = Ran("resume", run, pausefile.v.sw)
            /\ rel' = Outcome("resume", run.err, FALSE, <<>>)
  /\ UNCHANGED <<swVars, last_commits, plan, change_logs, planVars, on_line_commit, line, calcVars>>

\* An abort that leaves the pausefile where it is.
CmdAbort_leavesFile ==
  /\ rel' = Outcome("abort", IF pausefile.some THEN "none" ELSE "nopause", FALSE, <<>>)
  /\ UNCHANGED <<files, commits, tags, last, pausefile>>
  /\ UNCHANGED <<swVars, last_commits, plan, change_logs, planVars, on_line_commit, line, calcVars>>

\* abort(): remove the pausefile.
CmdAbort ==
  /\ rel' = Outcome("abort", IF pausefile.some THEN "none" ELSE "nopause", FALSE, <<>>)
  /\ pausefile' = None
  /\ UNCHANGED <<files, commits, tags, last>>
  /\ UNCHANGED <<swVars, last_commits, plan, change_logs, planVars, on_line_commit, line, calcVars>>

InitPause ==
  /\ writes = <<>>
  /\ proj_writes = {}
  /\ tag_head = <<>>
  /\ tag_commit = <<>>
  /\ tag_head_or_last = <<>>
  /\ \E v \in Versions : files = [f \in Paths |-> IF f = FileOf["p1"] THEN v ELSE <<1, 2, 3>>]
  /\ commits = <<[f \in Paths |-> <<1, 2, 3>>], files, files>>
  /\ tags = (PrevTag :> 1)
  /\ last_commits \in PartialFns({"p1"}, LastOids)
  /\ last = Queued("queue")
  /\ plan \in PartialFns(Projs, {"Minor"})
  /\ change_logs \in SUBSET {"p1"}
  /\ rel = NoRelease
  /\ PlanConsiderNew(NoConfig, "idle")
  /\ OtherIdle

PauseFails == {0, 1}                  \* no call fails, or the first one does
SetVersions == {<<2, 0, 0>>}          \* values `set` is given

NextPause ==
  \/ \E dry \in BOOLEAN, pause \in BOOLEAN, order \in Orders(DOMAIN plan),
        fail \in PauseFails : CmdRelease(dry, pause, order, fail)
  \/ \E id \in Projs, val \in SetVersions, fail \in PauseFails : CmdSet(id, val, fail)
  \/ \E fail \in PauseFails : CmdResume(fail)
  \/ CmdAbort

SpecPause == InitPause /\ [][NextPause]_vars

\* --------------------------------------------- release, one call at a time
\* The buffer release fills is the StateWrite of the variables.
\* A release that commits whatever --dry-run says.
FinishCommits_ignoresDry(dry) == DOMAIN plan # {}

\* `if !dry { mono.commit(..) }`, reached only with a plan that is not empty.
FinishCommits(dry) == ~dry /\ DOMAIN plan # {}

\* release up to its loop: build_plan, check_branch.
RelStart(dry, branch_ok) ==
  /\ rel.op = "idle"
  /\ rel' = IF branch_ok THEN [Outcome("loop", "none", dry, <<>>) EXCEPT !.result = "ok"]
            ELSE Outcome("release", "branch", dry, <<>>)
  /\ UNCHANGED <<swVars, repoVars, plan, change_logs, planVars, otherVars>>

\* One turn of `for (id, (size, changelog)) in plan.incrs()`.
RelStep(id, abortAt) ==
  /\ rel.op = "loop"
  /\ id \in DOMAIN plan \ DOMAIN rel.decided
  /\ \E turn \in {ReleaseLoop(<<id>>, 1, ThisWrite, rel.decided, abortAt)} :
       /\ writes' = turn.sw.writes
       /\ proj_writes' = turn.sw.proj_writes
       /\ tag_head' = turn.sw.tag_head
       /\ tag_commit' = turn.sw.tag_commit
       /\ tag_head_or_last' = turn.sw.tag_head_or_last
       /\ rel' = IF turn.err = "none" THEN [rel EXCEPT !.decided = turn.decided]
                 ELSE [rel EXCEPT !.op = "release", !.result = "err", !.err = turn.err]
  /\ UNCHANGED <<repoVars, plan, change_logs, planVars, otherVars>>

\* The end of release: the commit unless --dry-run.
RelFinish(fail) ==
  /\ rel.op = "loop"
  /\ DOMAIN rel.decided = DOMAIN plan
  /\ IF FinishCommits(rel.dry)
     THEN \E run \in {commit(ThisWrite, ThisRepo, PrevTag, last_commits, fail)} :
            /\ fail <= NumOps(ThisWrite)
            /\ writes' = run.sw.writes
            /\ proj_writes' = run.sw.proj_writes
            /\ tag_head' = run.sw.tag_head
            /\ tag_commit' = run.sw.tag_commit
            /\ tag_head_or_last' = run.sw.tag_head_or_last
            /\ files' = run.repo.files
            /\ commits' = run.repo.commits
            /\ tags' = run.repo.tags
            /\ last' = Ran("commit", run, ThisWrite)
            /\ rel' = [rel EXCEPT !.op = "release", !.err = run.err,
                                  !.result = IF run.err = "none" THEN "ok" ELSE "err"]
     ELSE /\ fail = 0
          /\ rel' = [rel EXCEPT !.op = "release"]
          /\ UNCHANGED <<swVars, files, commits, tags, last>>
  /\ UNCHANGED <<last_commits, plan, change_logs, planVars, otherVars>>

InitSteps ==
  /\ writes = <<>>
  /\ proj_writes = {}
  /\ tag_head = <<>>
  /\ tag_commit = <<>>
  /\ tag_head_or_last = <<>>
  /\ \E v \in Versions : files = [f \in Paths |-> IF f = FileOf["p1"] THEN v ELSE <<1, 2, 3>>]
  /\ commits = <<[f \in Paths |-> <<1, 2, 3>>], files, files>>
  /\ tags = (PrevTag :> 1)
  /\ last_commits \in PartialFns({"p1"}, LastOids)
  /\ last = Queued("queue")
  /\ plan \in PartialFns(Projs, {"None", "Minor", "Fail"})
  /\ change_logs \in SUBSET {"p1"}
  /\ rel = NoRelease
  /\ PlanConsiderNew(NoConfig, "idle")
  /\ OtherIdle

NextSteps ==
  \/ \E dry \in BOOLEAN, branch_ok \in BOOLEAN : RelStart(dry, branch_ok)
  \/ \E id \in Projs, abortAt \in {0, 1} : RelStep(id, abortAt)
  \/ \E fail \in 0..MaxReleaseOps : RelFinish(fail)

SpecSteps == InitSteps /\ [][NextSteps]_vars

\* ----------------------------------------------------------------- OldTags
MaxTagsAt == 2                        \* most tags of one project on one commit
Walk == <<"c3", "c2", "c1">>          \* repo.walk_head_to(prev_tag), HEAD first
WalkOids == {Walk[i] : i \in DOMAIN Walk}
TagsOn(oid, n) == [k \in 1..n |-> <<oid, k>>]   \* the n tags of one project on oid

\* An index one past the first tag appended.
best_ind_second(old_tags_list) == Len(old_tags_list) + 1

\* `let best_ind = old_tags.len()` (config.rs 241): the index the commit's
\* first tag gets in the prefix's list.
best_ind(old_tags_list) == Len(old_tags_list)

\* The walk of find_old_tags for one prefix. by_id: the prefix's tags by the
\* commit they sit on; old: its by_prefix list so far; na: its not_after map
\* so far; pending: its not_after_walk. Indices count from 0 as in the code.
RECURSIVE WalkTags(_, _, _, _, _)
WalkTags(by_id, i, old, na, pending) ==
  IF i > Len(Walk) THEN [by |-> old, na |-> na]
  ELSE LET oid == Walk[i]
           walked == Append(pending, oid)
           drained == {walked[k] : k \in DOMAIN walked}
       IN  IF oid \in DOMAIN by_id
           THEN WalkTags(by_id, i + 1, old \o by_id[oid],
                         [c \in DOMAIN na \cup drained |->
                            IF c \in drained THEN best_ind(old) ELSE na[c]],
                         <<>>)
           ELSE WalkTags(by_id, i + 1, old, na, walked)

\* Config::find_old_tags: by_prefix_id holds the prefixes that have a tag.
find_old_tags(by_prefix_id) ==
  LET hit == {p \in DOMAIN by_prefix_id :
                DOMAIN WalkTags(by_prefix_id[p], 1, <<>>, <<>>, <<>>).na # {}}
  IN  [by_proj |-> [p \in hit |-> WalkTags(by_prefix_id[p], 1, <<>>, <<>>, <<>>).by],
       not_after |-> [p \in hit |-> WalkTags(by_prefix_id[p], 1, <<>>, <<>>, <<>>).na]]

\* OldTags::latest(proj)
latest(T, proj) ==
  IF proj \in DOMAIN T.by_proj /\ T.by_proj[proj] # <<>>
  THEN Some(T.by_proj[proj][1]) ELSE None

\* OldTags::not_after(prefix, boundry):
\* `self.not_after.get(boundry).and_then(|m| m.get(prefix))`
not_after(T, prefix, boundry) ==
  IF boundry \in DOMAIN T.not_after /\ prefix \in DOMAIN T.not_after[boundry]
  THEN Some(T.by_proj[prefix][T.not_after[boundry][prefix] + 1]) ELSE None

\* OldTags::slice_earlier(new_oid)
slice_earlier(T, new_oid) ==
  LET keep == {p \in DOMAIN T.not_after : new_oid \in DOMAIN T.not_after[p]}
  IN  IF \E p \in keep : p \notin DOMAIN T.by_proj THEN [ok |-> FALSE, val |-> OldTagsEmpty]
      ELSE [ok |-> TRUE,
            val |-> [by_proj |->
                       [p \in keep |-> SubSeq(T.by_proj[p], T.not_after[p][new_oid] + 1,
                                              Len(T.by_proj[p]))],
                     not_after |->
                       [p \in keep |->
                          [c \in {c \in DOMAIN T.not_after[p] :
                                    T.not_after[p][c] >= T.not_after[p][new_oid]} |->
                             T.not_after[p][c] - T.not_after[p][new_oid]]]]]

\* prev.slice_earlier(oid): the index is replaced by its slice.
SliceEarlier(new_oid) ==
  /\ slice_earlier(old_tags, new_oid).ok
  /\ old_tags' = slice_earlier(old_tags, new_oid).val
  /\ UNCHANGED <<swVars, repoVars, relVars, planVars, on_line_commit, line, pausefile, sizing, query>>

\* The index find_old_tags builds for some tags on the commits of the walk.
InitTags ==
  /\ writes = <<>>
  /\ proj_writes = {}
  /\ tag_head = <<>>
  /\ tag_commit = <<>>
  /\ tag_head_or_last = <<>>
  /\ files = InitFiles
  /\ commits = <<InitFiles, InitFiles, InitFiles>>
  /\ tags = (PrevTag :> 1)
  /\ last_commits = <<>>
  /\ last = Queued("queue")
  /\ plan = <<>>
  /\ change_logs = {}
  /\ rel = NoRelease
  /\ PlanConsiderNew(NoConfig, "idle")
  /\ on_line_commit = None
  /\ line = NoLine
  /\ pausefile = None
  /\ sizing = NoSizing
  /\ \E n \in [Projs -> [WalkOids -> 0..MaxTagsAt]] :
       LET by_prefix_id ==
             [p \in {q \in Projs : \E c \in WalkOids : n[q][c] > 0} |->
                [c \in {d \in WalkOids : n[p][d] > 0} |-> TagsOn(c, n[p][c])]]
       IN /\ query = [op |-> "find_old_tags", by_prefix_id |-> by_prefix_id]
          /\ old_tags = find_old_tags(by_prefix_id)

NextTags == \E new_oid \in WalkOids : SliceEarlier(new_oid)

SpecTags == InitTags /\ [][NextTags]_vars

\* --------------------------------------------------- Size on version strings
\* A version string is a Seq of characters; its components are u32, held here
\* in a narrower unsigned type whose largest value is U32Max.
U32Max == 7
Digits == <<"0", "1", "2", "3", "4", "5", "6", "7", "8", "9">>
IsDigit(c) == \E i \in DOMAIN Digits : Digits[i] = c
DigitVal(c) == (CHOOSE i \in DOMAIN Digits : Digits[i] = c) - 1
Builds == {"debug", "release"}        \* overflow checks on, or off

\* str::split('.'): the pieces between the dots, empty pieces included.
RECURSIVE Split(_, _)
Split(str, piece) ==
  IF str = <<>> THEN <<piece>>
  ELSE IF Head(str) = "." THEN <<piece>> \o Split(Tail(str), <<>>)
  ELSE Split(Tail(str), Append(piece, Head(str)))

\* The digits of <u32 as FromStr>::from_str, most significant first.
RECURSIVE ParseDigits(_, _)
ParseDigits(str, acc) ==
  IF str = <<>> THEN SizeOk(acc)
  ELSE IF ~IsDigit(Head(str)) THEN SizeErr
  ELSE IF acc * Len(Digits) + DigitVal(Head(str)) > U32Max THEN SizeErr
  ELSE ParseDigits(Tail(str), acc * Len(Digits) + DigitVal(Head(str)))

\* p.parse::<u32>(): one optional '+', then at least one digit, no overflow.
parse_u32(str) ==
  IF str = <<>> THEN SizeErr
  ELSE IF Head(str) = "+" THEN (IF Tail(str) = <<>> THEN SizeErr ELSE ParseDigits(Tail(str), 0))
  ELSE ParseDigits(str, 0)

\* format!("{}", n) for a u32
RECURSIVE ToDec(_)
ToDec(n) ==
  IF n < Len(Digits) THEN <<Digits[n + 1]>>
  ELSE ToDec(n \div Len(Digits)) \o <<Digits[(n % Len(Digits)) + 1]>>

\* format!("{}.{}.{}", a, b, c)
FormatVers(a, b, c) == ToDec(a) \o <<".">> \o ToDec(b) \o <<".">> \o ToDec(c)

\* Size::parts(v) on the string v
Size_parts(v) ==
  LET pieces == Split(v, <<>>)
      nums == [i \in DOMAIN pieces |-> parse_u32(pieces[i])]
  IN  IF \E i \in DOMAIN nums : ~nums[i].ok THEN SizeErr
      ELSE IF Len(nums) # 3 THEN SizeErr
      ELSE SizeOk(<<nums[1].val, nums[2].val, nums[3].val>>)

\* `n + 1` on a u32: a panic with overflow checks, a wrap to 0 without.
AddOne(n, build) ==
  IF n < U32Max THEN [res |-> "ok", val |-> n + 1]
  ELSE IF build = "debug" THEN [res |-> "panic", val |-> 0]
  ELSE [res |-> "ok", val |-> (n + 1) % (U32Max + 1)]

\* Size::apply(self, v) on the string v, as the build `build` runs it.
Size_apply(size, v, build) ==
  LET p == Size_parts(v).val
      inc == CASE size = "Major" -> AddOne(p[1], build)
               [] size = "Minor" -> AddOne(p[2], build)
               [] size = "Patch" -> AddOne(p[3], build)
               [] OTHER -> [res |-> "ok", val |-> 0]
  IN  IF ~Size_parts(v).ok THEN [res |-> "err", val |-> <<>>]
      ELSE IF inc.res = "panic" THEN [res |-> "panic", val |-> <<>>]
      ELSE CASE size = "Major" -> [res |-> "ok", val |-> FormatVers(inc.val, 0, 0)]
             [] size = "Minor" -> [res |-> "ok", val |-> FormatVers(p[1], inc.val, 0)]
             [] size = "Patch" -> [res |-> "ok", val |-> FormatVers(p[1], p[2], inc.val)]
             [] size = "None" -> [res |-> "ok", val |-> FormatVers(p[1], p[2], p[3])]
             [] size = "Fail" -> [res |-> "err", val |-> <<>>]

\* Size::less_than(v1, v2) on the strings v1, v2
Size_less_than(v1, v2) ==
  LET p1 == Size_parts(v1).val
      p2 == Size_parts(v2).val
  IN  IF ~Size_parts(v1).ok \/ ~Size_parts(v2).ok THEN SizeErr
      ELSE SizeOk(p1[1] < p2[1]
                    \/ (p1[1] = p2[1] /\ (p1[2] < p2[2] \/ (p1[2] = p2[2] /\ p1[3] < p2[3]))))

\* The pieces the version strings are put together from.
Pieces == {<<>>, <<"0">>, <<"1">>, <<"6">>, <<"7">>, <<"8">>, <<"0", "7">>, <<"+", "1">>, <<"x">>}
RECURSIVE Join(_)
Join(ps) ==
  IF Len(ps) = 1 THEN ps[1] ELSE ps[1] \o <<".">> \o Join(Tail(ps))
VersionStrings ==
  {Join(ps) : ps \in SeqsUpTo(Pieces, 3) \ {<<>>}} \cup {Join(<<<<"1">>, <<"1">>, <<"1">>, <<"1">>>>)}

\* size.apply(&v)
SizeApply ==
  /\ sizing.op = "input"
  /\ sizing' = [sizing EXCEPT !.op = "applied",
                              !.out = Size_apply(sizing.size, sizing.v, sizing.build)]
  /\ UNCHANGED <<swVars, repoVars, relVars, planVars, on_line_commit, line, pausefile, old_tags, query>>

\* Size::less_than(&v, &target), target being what apply returned
SizeLessThan ==
  /\ sizing.op = "applied"
  /\ sizing.out.res = "ok"
  /\ sizing' = [sizing EXCEPT !.op = "compared",
                              !.lt = Size_less_than(sizing.v, sizing.out.val)]
  /\ UNCHANGED <<swVars, repoVars, relVars, planVars, on_line_commit, line, pausefile, old_tags, query>>

InitSize ==
  /\ writes = <<>>
  /\ proj_writes = {}
  /\ tag_head = <<>>
  /\ tag_commit = <<>>
  /\ tag_head_or_last = <<>>
  /\ files = InitFiles
  /\ commits = <<InitFiles, InitFiles, InitFiles>>
  /\ tags = (PrevTag :> 1)
  /\ last_commits = <<>>
  /\ last = Queued("queue")
  /\ plan = <<>>
  /\ change_logs = {}
  /\ rel = NoRelease
  /\ PlanConsiderNew(NoConfig, "idle")
  /\ on_line_commit = None
  /\ line = NoLine
  /\ pausefile = None
  /\ old_tags = OldTagsEmpty
  /\ query = NoQuery
  /\ \E size \in Sizes, v \in VersionStrings, build \in Builds :
       sizing = [op |-> "input", size |-> size, v |-> v, build |-> build,
                 out |-> [res |-> "none", val |-> <<>>], lt |-> SizeErr]

NextSize == SizeApply \/ SizeLessThan

SpecSize == InitSize /\ [][NextSize]_vars

\* ---------------------------------------------------------------- planner
MaxPrs == 2                           \* most PR groups one plan considers
Ghost == "ghost"                      \* an id that names no project
Times == {1, 2}                       \* closed_at values

\* The comparison with Patch placed above Minor.
Size_cmp_patchAboveMinor(a, b) ==
  CASE a = "Fail" -> IF b = "Fail" THEN "Equal" ELSE "Greater"
    [] a = "Major" -> IF b = "Fail" THEN "Less" ELSE IF b = "Major" THEN "Equal" ELSE "Greater"
    [] a = "Minor" -> IF b \in {"Major", "Fail", "Patch"} THEN "Less"
                      ELSE IF b = "Minor" THEN "Equal" ELSE "Greater"
    [] a = "Patch" -> IF b \in {"None", "Minor"} THEN "Greater"
                      ELSE IF b = "Patch" THEN "Equal" ELSE "Less"
    [] a = "None" -> IF b = "None" THEN "Equal" ELSE "Less"

\* impl Ord for Size
Size_cmp(a, b) ==
  CASE a = "Fail" -> IF b = "Fail" THEN "Equal" ELSE "Greater"
    [] a = "Major" -> IF b = "Fail" THEN "Less" ELSE IF b = "Major" THEN "Equal" ELSE "Greater"
    [] a = "Minor" -> IF b \in {"Major", "Fail"} THEN "Less"
                      ELSE IF b = "Minor" THEN "Equal" ELSE "Greater"
    [] a = "Patch" -> IF b = "None" THEN "Greater" ELSE IF b = "Patch" THEN "Equal" ELSE "Less"
    [] a = "None" -> IF b = "None" THEN "Equal" ELSE "Less"
\* std::cmp::max on Size
SizeMax(a, b) == IF Size_cmp(a, b) = "Greater" THEN a ELSE b
\* Iterator::max over the sizes of S
SizeMaxOf(S) ==
  IF S = {} THEN None ELSE Some(CHOOSE s \in S : \A t \in S : Size_cmp(s, t) # "Less")

\* A commit kind is held as the Seq of its characters.
RECURSIVE TrimStart(_)
TrimStart(k) == IF k # <<>> /\ Head(k) = " " THEN TrimStart(Tail(k)) ELSE k
RECURSIVE TrimEnd(_)
TrimEnd(k) == IF k # <<>> /\ k[Len(k)] = " " THEN TrimEnd(SubSeq(k, 1, Len(k) - 1)) ELSE k
Trim(k) == TrimEnd(TrimStart(k))

\* Project::size looking the kind up in the table before testing for '!'.
Project_size_tableFirst(parent_sizes, kind) ==
  LET k == Trim(kind)
  IN  IF k \in DOMAIN parent_sizes THEN SizeOk(parent_sizes[k])
      ELSE IF k # <<>> /\ k[Len(k)] = "!" THEN SizeOk("Major")
      ELSE IF <<"*">> \in DOMAIN parent_sizes THEN SizeOk(parent_sizes[<<"*">>])
      ELSE SizeErr

\* Project::size(parent_sizes, kind)
Project_size(parent_sizes, kind) ==
  LET k == Trim(kind)
  IN  IF k # <<>> /\ k[Len(k)] = "!" THEN SizeOk("Major")
      ELSE IF k \in DOMAIN parent_sizes THEN SizeOk(parent_sizes[k])
      ELSE IF <<"*">> \in DOMAIN parent_sizes THEN SizeOk(parent_sizes[<<"*">>])
      ELSE SizeErr

\* The `sizes` table of the manifest.
ConfigSizes == (<<"f", "i", "x">> :> "Patch") @@ (<<"f", "e", "a", "t">> :> "Minor")
                 @@ (<<"*">> :> "None")

\* A `sizes` table without the "*" fallback, and with an entry for a '!' kind.
StrictSizes == (<<"f", "i", "x">> :> "Patch") @@ (<<"f", "e", "a", "t", "!">> :> "Minor")

\* A path is <<directory, file name>>; a cover pattern names a directory.
\* Project::does_cover(path): no exclude matches and some include does.
does_cover(project, path) ==
  IF \E cov \in project.excludes : cov = path[1] THEN FALSE
  ELSE \E cov \in project.includes : cov = path[1]

\* The manifest as it stood at the commits since prev_tag (prev.slice(id)): the
\* two current projects, and one that has since been removed.
PrevConfig(id) ==
  [projects |-> << [id |-> "p1", includes |-> {"p1"}, excludes |-> {}],
                   [id |-> "p2", includes |-> {"p2"}, excludes |-> {}],
                   [id |-> "gone", includes |-> {"old"}, excludes |-> {}] >>]

\* The commits since prev_tag, oldest first (CommitData: id, kind, files).
History ==
  << [id |-> "o1", kind |-> <<"d", "o", "c", "s">>, files |-> << <<"p1", "a">> >>],
     [id |-> "o2", kind |-> <<"f", "e", "a", "t", "!">>,
      files |-> << <<"p1", "a">>, <<"p2", "b">> >>],
     [id |-> "o3", kind |-> <<"f", "i", "x">>,
      files |-> << <<"docs", "r">>, <<"old", "a">> >>] >>

RECURSIVE SubHistory(_, _)
SubHistory(S, i) ==
  IF i > Len(History) THEN <<>>
  ELSE (IF i \in S THEN <<History[i]>> ELSE <<>>) \o SubHistory(S, i + 1)

\* FullPr values numbered n: any closing time, any commits of the history.
FullPrs(n) ==
  {[number |-> n, closed_at |-> t, commits |-> SubHistory(S, 1)] :
     t \in Times, S \in SUBSET DOMAIN History}

\* SizedPr::capture(pr)
SizedPr_capture(pr) == [number |-> pr.number, closed_at |-> pr.closed_at, commits |-> <<>>]
\* SizedPrCommit::new(oid, message, size)
SizedPrCommit_new(oid, size) ==
  [oid |-> oid, size |-> size, applies |-> FALSE, duplicate |-> FALSE]
\* included, whether the commit is a duplicate or not.
included_withDuplicates(c) == c.applies

\* SizedPrCommit::included
included(c) == c.applies /\ ~c.duplicate

\* (Size::None, None, ChangeLog::empty())
NewIncr == [size |-> "None", last_commit |-> None, change_log |-> <<>>]
\* incrs.entry(id).or_insert(..)
EntryOrInsert(inc, id) == IF id \in DOMAIN inc THEN inc ELSE Put(inc, id, NewIncr)

ProjectIds(cfg) == {cfg.projects[i].id : i \in DOMAIN cfg.projects}

\* PlanConsider::consider_pr
consider_pr(cfg, pr) ==
  [on_pr_sizes |-> [id \in ProjectIds(cfg) |-> SizedPr_capture(pr)],
   on_ineffective |-> Some(SizedPr_capture(pr))]

\* PlanConsider::consider_commit: one SizedPrCommit pushed per project, or the
\* error of Project::size.
consider_commit(cfg, ops, cdata) ==
  LET size == Project_size(cfg.sizes, cdata.kind)
  IN  IF DOMAIN ops # {} /\ ~size.ok THEN [ok |-> FALSE, on_pr_sizes |-> ops]
      ELSE [ok |-> TRUE,
            on_pr_sizes |->
              [id \in DOMAIN ops |->
                 [ops[id] EXCEPT !.commits = Append(@, SizedPrCommit_new(cdata.id, size.val))]]]

\* iter_mut().find(|c| c.oid == commit_id): the first commit of that oid
FindCommit(cs, commit_id) ==
  CHOOSE i \in DOMAIN cs : cs[i].oid = commit_id /\ \A j \in 1..(i - 1) : cs[j].oid # commit_id

\* PlanConsider::consider_file
consider_file(prev, ops, commit_id, path) ==
  [id \in DOMAIN ops |->
     IF \E i \in DOMAIN prev.projects :
          prev.projects[i].id = id /\ does_cover(prev.projects[i], path)
     THEN [ops[id] EXCEPT !.commits[FindCommit(ops[id].commits, commit_id)].applies = TRUE]
     ELSE ops[id]]

\* The size of a PR for one project: the largest size among the listed commits.
PrSize(cs) == SizeMaxOf({cs[i].size : i \in DOMAIN cs})

\* finish_pr counting every commit of the PR, applicable or not.
finish_pr_anyCommit(ops, ine, inc, ineff) ==
  LET pr_size(id) == PrSize(ops[id].commits)
      found == \E id \in DOMAIN ops : pr_size(id).some
  IN  [incrs |->
         [id \in DOMAIN inc \cup DOMAIN ops |->
            IF id \in DOMAIN ops /\ pr_size(id).some
            THEN [EntryOrInsert(inc, id)[id] EXCEPT
                    !.size = SizeMax(@, pr_size(id).v),
                    !.change_log = Append(@, [pr |-> ops[id], size |-> pr_size(id).v])]
            ELSE EntryOrInsert(inc, id)[id]],
       ineffective |-> IF ~found THEN Append(ineff, ine.v) ELSE ineff]

\* PlanConsider::finish_pr
finish_pr(ops, ine, inc, ineff) ==
  LET pr_size(id) == PrSize(SelectSeq(ops[id].commits, LAMBDA c : c.applies))
      found == \E id \in DOMAIN ops : pr_size(id).some
  IN  [incrs |->
         [id \in DOMAIN inc \cup DOMAIN ops |->
            IF id \in DOMAIN ops /\ pr_size(id).some
            THEN [EntryOrInsert(inc, id)[id] EXCEPT
                    !.size = SizeMax(@, pr_size(id).v),
                    !.change_log = Append(@, [pr |-> ops[id], size |-> pr_size(id).v])]
            ELSE EntryOrInsert(inc, id)[id]],
       ineffective |-> IF ~found THEN Append(ineff, ine.v) ELSE ineff]

\* PlanConsider::consider_last_commits
consider_last_commits(inc, lasts) ==
  [id \in DOMAIN inc |->
     IF id \in DOMAIN lasts THEN [inc[id] EXCEPT !.last_commit = Some(lasts[id])] ELSE inc[id]]

\* consider_deps, before its queue loop: the reverse edges dep -> dependents,
\* and the queue of the projects without depends, in manifest order.
DepsStart(cfg, inc) ==
  LET ps == cfg.projects
      roots == SelectSeq(ps, LAMBDA q : q.depends = {})
  IN  [dependents |->
         [dep \in UNION {ps[i].depends : i \in DOMAIN ps} |->
            {ps[i].id : i \in {j \in DOMAIN ps : dep \in ps[j].depends}}],
       queue |->
         [i \in DOMAIN roots |->
            <<roots[i].id,
              IF roots[i].id \in DOMAIN inc THEN inc[roots[i].id].size ELSE "None">>],
       incrs |-> inc]

\* The test that lets every dependent through.
DepsFree_always(dependents, depd) == TRUE

\* `dependents.values().all(|ds| !ds.contains(&depd))` (config.rs 462): no
\* project is left that depd still waits for.
DepsFree(dependents, depd) == \A d \in DOMAIN dependents : depd \notin dependents[d]

\* `for depd in depds`, in the order ord in which the HashSet yields them.
RECURSIVE DepsEdges(_, _, _, _, _)
DepsEdges(st, id, size, ord, k) ==
  IF k > Len(ord) THEN st
  ELSE LET depd == ord[k]
           dependents == [st.dependents EXCEPT ![id] = @ \ {depd}]
           val == SizeMax(EntryOrInsert(st.incrs, depd)[depd].size, size)
           free == DepsFree(dependents, depd)
       IN  DepsEdges([dependents |-> dependents,
                      queue |-> IF free THEN Append(st.queue, <<depd, val>>) ELSE st.queue,
                      incrs |-> [EntryOrInsert(st.incrs, depd) EXCEPT ![depd].size = val]],
                     id, size, ord, k + 1)

\* One turn of `while let Some((id, size)) = queue.pop_front()`.
DepsPop(st, ord) ==
  LET id == Head(st.queue)[1]
      size == Head(st.queue)[2]
  IN  DepsEdges([st EXCEPT !.queue = Tail(@),
                           !.incrs = [EntryOrInsert(st.incrs, id) EXCEPT
                                        ![id].size = SizeMax(@, size)]],
                id, size, ord, 1)

\* The queue loop: every incrs it can end with, over the orders a HashSet may
\* yield its members in.
RECURSIVE DepsLoop(_)
DepsLoop(st) ==
  IF st.queue = <<>> THEN {st.incrs}
  ELSE UNION {DepsLoop(DepsPop(st, ord)) :
                ord \in IF Head(st.queue)[1] \in DOMAIN st.dependents
                        THEN Orders(st.dependents[Head(st.queue)[1]]) ELSE {<<>>}}

\* PlanConsider::consider_deps
consider_deps(cfg, inc) == DepsLoop(DepsStart(cfg, inc))

\* entries.sort_by_key(closed_at): a stable sort.
RECURSIVE InsertByClosedAt(_, _)
InsertByClosedAt(sorted, e) ==
  IF sorted = <<>> THEN <<e>>
  ELSE IF e.pr.closed_at < Head(sorted).pr.closed_at THEN <<e>> \o sorted
  ELSE <<Head(sorted)>> \o InsertByClosedAt(Tail(sorted), e)
RECURSIVE SortByClosedAt(_)
SortByClosedAt(es) ==
  IF es = <<>> THEN <<>>
  ELSE InsertByClosedAt(SortByClosedAt(SubSeq(es, 1, Len(es) - 1)), es[Len(es)])

\* The walk over one PR's commits: an oid seen before is marked duplicate.
RECURSIVE DedupCommits(_, _, _)
DedupCommits(cs, j, seen) ==
  IF j > Len(cs) THEN [commits |-> cs, seen |-> seen]
  ELSE DedupCommits(IF cs[j].oid \in seen THEN [cs EXCEPT ![j].duplicate = TRUE] ELSE cs,
                    j + 1, seen \cup {cs[j].oid})

\* The walk over one ChangeLog's entries, each resized to its included commits.
RECURSIVE DedupEntries(_, _, _)
DedupEntries(es, i, seen) ==
  IF i > Len(es) THEN es
  ELSE LET d == DedupCommits(es[i].pr.commits, 1, seen)
           size == PrSize(SelectSeq(d.commits, included))
       IN  DedupEntries([es EXCEPT ![i] = [pr |-> [es[i].pr EXCEPT !.commits = d.commits],
                                           size |-> IF size.some THEN size.v ELSE "None"]],
                        i + 1, d.seen)

\* sort_and_dedup walking the entries in the order they were added.
sort_and_dedup_unsorted(inc) ==
  [id \in DOMAIN inc |-> [inc[id] EXCEPT !.change_log = DedupEntries(@, 1, {})]]

\* PlanConsider::sort_and_dedup
sort_and_dedup(inc) ==
  [id \in DOMAIN inc |->
     [inc[id] EXCEPT !.change_log = DedupEntries(SortByClosedAt(@), 1, {})]]

\* The size each project of the manifest stands at (no entry: None).
SizesOf(cfg, inc) ==
  [id \in ProjectIds(cfg) |-> IF id \in DOMAIN inc THEN inc[id].size ELSE "None"]

\* --------------------------------------------- configure_plan, step by step

\* plan.consider_pr(pr)
ConsiderPr(pr) ==
  /\ pc.at = "prs"
  /\ Len(pc.done) < MaxPrs
  /\ on_pr_sizes' = consider_pr(current, pr).on_pr_sizes
  /\ on_ineffective' = consider_pr(current, pr).on_ineffective
  /\ pc' = [pc EXCEPT !.at = "in_pr", !.pr = pr, !.ci = 1, !.fi = 1]
  /\ UNCHANGED <<otherVars, swVars, repoVars, relVars, current, on_commit, incrs, ineffective>>

\* plan.consider_commit(commit)
ConsiderCommit(cdata) ==
  /\ pc.at = "in_pr"
  /\ pc.ci <= Len(pc.pr.commits)
  /\ cdata = pc.pr.commits[pc.ci]
  /\ on_commit' = Some(cdata)
  /\ on_pr_sizes' = consider_commit(current, on_pr_sizes, cdata).on_pr_sizes
  /\ pc' = [pc EXCEPT !.at = IF consider_commit(current, on_pr_sizes, cdata).ok
                             THEN "in_commit" ELSE "failed",
                      !.fi = 1]
  /\ UNCHANGED <<otherVars, swVars, repoVars, relVars, current, on_ineffective, incrs, ineffective>>

\* plan.consider_file(file); plan.finish_file()
ConsiderFile(path) ==
  /\ pc.at = "in_commit"
  /\ pc.fi <= Len(on_commit.v.files)
  /\ path = on_commit.v.files[pc.fi]
  /\ on_pr_sizes' = consider_file(PrevConfig(on_commit.v.id), on_pr_sizes, on_commit.v.id, path)
  /\ pc' = [pc EXCEPT !.fi = @ + 1]
  /\ UNCHANGED <<otherVars, swVars, repoVars, relVars, current, on_ineffective, on_commit, incrs,
                 ineffective>>

\* plan.finish_commit()
FinishCommit ==
  /\ pc.at = "in_commit"
  /\ pc.fi > Len(on_commit.v.files)
  /\ pc' = [pc EXCEPT !.at = "in_pr", !.ci = @ + 1]
  /\ UNCHANGED <<otherVars, swVars, repoVars, relVars, current, on_pr_sizes, on_ineffective, on_commit,
                 incrs, ineffective>>

\* plan.finish_pr()
FinishPr ==
  /\ pc.at = "in_pr"
  /\ pc.ci > Len(pc.pr.commits)
  /\ \E r \in {finish_pr(on_pr_sizes, on_ineffective, incrs, ineffective)} :
       /\ incrs' = r.incrs
       /\ ineffective' = r.ineffective
       /\ pc' = [at |-> "prs", pr |-> NoFullPr, ci |-> 0, fi |-> 0,
                 done |-> Append(pc.done, [pr |-> pc.pr,
                                           before |-> SizesOf(current, incrs),
                                           after |-> SizesOf(current, r.incrs)])]
  /\ on_pr_sizes' = <<>>
  /\ on_ineffective' = None
  /\ UNCHANGED <<otherVars, swVars, repoVars, relVars, current, on_commit>>

\* plan.consider_last_commits(&last_commits)
ConsiderLastCommits ==
  /\ pc.at = "prs"
  /\ incrs' = consider_last_commits(incrs, last_commits)
  /\ pc' = [pc EXCEPT !.at = "deps"]
  /\ UNCHANGED <<otherVars, swVars, repoVars, relVars, current, on_pr_sizes, on_ineffective, on_commit,
                 ineffective>>

\* plan.consider_deps()
ConsiderDeps ==
  /\ pc.at = "deps"
  /\ incrs' \in consider_deps(current, incrs)
  /\ pc' = [pc EXCEPT !.at = "sort"]
  /\ UNCHANGED <<otherVars, swVars, repoVars, relVars, current, on_pr_sizes, on_ineffective, on_commit,
                 ineffective>>

\* plan.sort_and_dedup()
SortAndDedup ==
  /\ pc.at = "sort"
  /\ incrs' = sort_and_dedup(incrs)
  /\ pc' = [pc EXCEPT !.at = "finish"]
  /\ UNCHANGED <<otherVars, swVars, repoVars, relVars, current, on_pr_sizes, on_ineffective, on_commit,
                 ineffective>>

\* plan.finish_plan()
FinishPlan ==
  /\ pc.at = "finish"
  /\ plan' = [id \in DOMAIN incrs |-> incrs[id].size]
  /\ pc' = [pc EXCEPT !.at = "done"]
  /\ UNCHANGED <<otherVars, swVars, repoVars, change_logs, rel, current, on_pr_sizes, on_ineffective,
                 on_commit, incrs, ineffective>>

\* The repository a plan is built over: nothing queued, nothing released.
InitRepo ==
  /\ writes = <<>>
  /\ proj_writes = {}
  /\ tag_head = <<>>
  /\ tag_commit = <<>>
  /\ tag_head_or_last = <<>>
  /\ files = InitFiles
  /\ commits = <<InitFiles, InitFiles, InitFiles>>
  /\ tags = (PrevTag :> 1)
  /\ last_commits \in [{"p1"} -> LastOids]
  /\ last = Queued("queue")
  /\ plan = <<>>
  /\ change_logs = {}
  /\ rel = NoRelease
  /\ OtherIdle

\* Manifests of the two projects: p2 depends on nothing, or on p1; either
\* `sizes` table.
PlanConfigs ==
  {[projects |-> << [id |-> "p1", depends |-> {}], [id |-> "p2", depends |-> d] >>,
    sizes |-> sz] : d \in {{}, {"p1"}}, sz \in {ConfigSizes, StrictSizes}}

InitPlan == InitRepo /\ \E cfg \in PlanConfigs : PlanConsiderNew(cfg, "prs")

HistoryPaths == UNION {{History[i].files[j] : j \in DOMAIN History[i].files} : i \in DOMAIN History}

NextPlan ==
  \/ \E pr \in FullPrs(Len(pc.done) + 1) : ConsiderPr(pr)
  \/ \E cdata \in {History[i] : i \in DOMAIN History} : ConsiderCommit(cdata)
  \/ \E path \in HistoryPaths : ConsiderFile(path)
  \/ FinishCommit
  \/ FinishPr
  \/ ConsiderLastCommits
  \/ ConsiderDeps
  \/ SortAndDedup
  \/ FinishPlan

SpecPlan == InitPlan /\ [][NextPlan]_vars

\* ------------------------------------------------- consider_deps on its own
DepProjs == {"p1", "p2", "p3"}
DepSizes == {"None", "Patch", "Major"}

\* Every depends list validate() lets through: any ids, projects or not.
DepConfigs ==
  {[projects |-> << [id |-> "p1", depends |-> d1], [id |-> "p2", depends |-> d2],
                    [id |-> "p3", depends |-> d3] >>,
    sizes |-> ConfigSizes] : d1, d2, d3 \in SUBSET (DepProjs \cup {Ghost})}

\* The state consider_deps is called in: no PR considered (incrs empty), or
\* every project holding the size its PRs gave it.
InitDeps ==
  /\ InitRepo
  /\ current \in DepConfigs
  /\ on_pr_sizes = <<>>
  /\ on_ineffective = None
  /\ on_commit = None
  /\ incrs \in {<<>>} \cup {[id \in DepProjs |-> [NewIncr EXCEPT !.size = f[id]]] :
                             f \in [DepProjs -> DepSizes]}
  /\ ineffective = <<>>
  /\ pc = [NotPlanning EXCEPT !.at = "deps"]

NextDeps == ConsiderDeps

SpecDeps == InitDeps /\ [][NextDeps]_vars

\* --------------------------------------------------- find_last_commits
RECURSIVE Reverse(_)
Reverse(q) == IF q = <<>> THEN <<>> ELSE Append(Reverse(Tail(q)), Head(q))

\* line_commits(repo, head, prev_spec): the commits on the line from HEAD back
\* to prev_tag, newest first.
LineCommits(S) == Reverse(SubHistory(S, 1))

\* LastCommitFinder::consider_line_file
consider_line_file(cfg, prev, lasts, commit_id, path) ==
  [proj_id \in DOMAIN lasts \cup
       {prev.projects[i].id : i \in {j \in DOMAIN prev.projects :
            prev.projects[j].id \in ProjectIds(cfg) /\ does_cover(prev.projects[j], path)}} |->
     IF \E i \in DOMAIN prev.projects :
          /\ prev.projects[i].id = proj_id
          /\ proj_id \in ProjectIds(cfg)
          /\ does_cover(prev.projects[i], path)
     THEN commit_id
     ELSE lasts[proj_id]]

findFrame == <<swVars, files, commits, tags, last, relVars, planVars, pausefile, calcVars>>

\* last_finder.consider_line_commit(&commit)
ConsiderLineCommit(cdata) ==
  /\ line.at = "walk"
  /\ line.ci <= Len(line.walk)
  /\ cdata = line.walk[line.ci]
  /\ on_line_commit' = Some(cdata.id)
  /\ line' = [line EXCEPT !.at = "in_commit", !.fi = 1]
  /\ UNCHANGED <<findFrame, last_commits>>

\* last_finder.consider_line_file(file); last_finder.finish_line_file()
ConsiderLineFile(path) ==
  /\ line.at = "in_commit"
  /\ line.fi <= Len(line.walk[line.ci].files)
  /\ path = line.walk[line.ci].files[line.fi]
  /\ last_commits' = consider_line_file(current, PrevConfig(on_line_commit.v), last_commits,
                                        on_line_commit.v, path)
  /\ line' = [line EXCEPT !.fi = @ + 1]
  /\ UNCHANGED <<findFrame, on_line_commit>>

\* last_finder.finish_line_commit()
FinishLineCommit ==
  /\ line.at = "in_commit"
  /\ line.fi > Len(line.walk[line.ci].files)
  /\ line' = [line EXCEPT !.at = "walk", !.ci = @ + 1]
  /\ UNCHANGED <<findFrame, on_line_commit, last_commits>>

\* last_finder.finish_finder()
FinishFinder ==
  /\ line.at = "walk"
  /\ line.ci > Len(line.walk)
  /\ line' = [line EXCEPT !.at = "done"]
  /\ UNCHANGED <<findFrame, on_line_commit, last_commits>>

\* LastCommitFinder::new over any line of commits of the history.
InitFinder ==
  /\ writes = <<>>
  /\ proj_writes = {}
  /\ tag_head = <<>>
  /\ tag_commit = <<>>
  /\ tag_head_or_last = <<>>
  /\ files = InitFiles
  /\ commits = <<InitFiles, InitFiles, InitFiles>>
  /\ tags = (PrevTag :> 1)
  /\ last = Queued("queue")
  /\ plan = <<>>
  /\ change_logs = {}
  /\ rel = NoRelease
  /\ \E cfg \in PlanConfigs : PlanConsiderNew(cfg, "idle")
  /\ on_line_commit = None
  /\ pausefile = None
  /\ CalcIdle
  /\ last_commits = <<>>
  /\ \E S \in SUBSET DOMAIN History :
       line = [at |-> "walk", walk |-> LineCommits(S), ci |-> 1, fi |-> 1]

NextFinder ==
  \/ \E cdata \in {History[i] : i \in DOMAIN History} : ConsiderLineCommit(cdata)
  \/ \E path \in HistoryPaths : ConsiderLineFile(path)
  \/ FinishLineCommit
  \/ FinishFinder

SpecFinder == InitFinder /\ [][NextFinder]_vars

\* ------------------------------------------------------------ Ord for Size
\* a.cmp(&b), b.cmp(&a), b.cmp(&c) and a.cmp(&c) for the three sizes at hand.
SizeCompare ==
  /\ sizing.op = "input"
  /\ sizing' = [sizing EXCEPT !.op = "compared",
                              !.ab = Size_cmp(sizing.a, sizing.b),
                              !.ba = Size_cmp(sizing.b, sizing.a),
                              !.bc = Size_cmp(sizing.b, sizing.c),
                              !.ac = Size_cmp(sizing.a, sizing.c)]
  /\ UNCHANGED <<swVars, repoVars, relVars, planVars, on_line_commit, line, pausefile, old_tags, query>>

\* max(a, None), max(a, Fail) and max(a, b)
SizeTakeMax ==
  /\ sizing.op = "compared"
  /\ sizing' = [sizing EXCEPT !.op = "maxed",
                              !.with_none = SizeMax(sizing.a, "None"),
                              !.with_fail = SizeMax(sizing.a, "Fail"),
                              !.with_b = SizeMax(sizing.a, sizing.b)]
  /\ UNCHANGED <<swVars, repoVars, relVars, planVars, on_line_commit, line, pausefile, old_tags, query>>

InitOrder ==
  /\ writes = <<>>
  /\ proj_writes = {}
  /\ tag_head = <<>>
  /\ tag_commit = <<>>
  /\ tag_head_or_last = <<>>
  /\ files = InitFiles
  /\ commits = <<InitFiles, InitFiles, InitFiles>>
  /\ tags = (PrevTag :> 1)
  /\ last_commits = <<>>
  /\ last = Queued("queue")
  /\ plan = <<>>
  /\ change_logs = {}
  /\ rel = NoRelease
  /\ PlanConsiderNew(NoConfig, "idle")
  /\ on_line_commit = None
  /\ line = NoLine
  /\ pausefile = None
  /\ old_tags = OldTagsEmpty
  /\ query = NoQuery
  /\ \E a \in Sizes, b \in Sizes, c \in Sizes :
       sizing = [op |-> "input", a |-> a, b |-> b, c |-> c,
                 ab |-> "none", ba |-> "none", bc |-> "none", ac |-> "none",
                 with_none |-> "none", with_fail |-> "none", with_b |-> "none"]

NextOrder == SizeCompare \/ SizeTakeMax

SpecOrder == InitOrder /\ [][NextOrder]_vars

\* ------------------------------------------------------------------ does_cover on glob patterns
\* Project::does_cover as the code computes it (config.rs 704-717): patterns
\* and paths are '/'-separated; a pattern or a path is the sequence of its
\* segments.  The planner above uses the one-directory patterns of its
\* manifests, for which the matching below is the equality of the directory.

\* The longest includes / excludes list of a project.
MaxPatterns == 2

\* A segment that glob::Pattern::new refuses ("recursive wildcards must form a
\* single path component").
BadSegment == "a**"

\* glob::Pattern::new(pattern): Err for a malformed pattern.
Pattern_new(segs) ==
  IF \E i \in DOMAIN segs : segs[i] = BadSegment THEN [ok |-> FALSE, val |-> <<>>]
  ELSE [ok |-> TRUE, val |-> segs]

\* Pattern::matches_with(path, match_opts()): require_literal_separator, so "*"
\* stays inside one segment; "**/" spans zero or more directories and a final
\* "**" one or more segments.
RECURSIVE Pattern_matches_with(_, _)
Pattern_matches_with(segs, path) ==
  IF segs = <<>> THEN path = <<>>
  ELSE IF Head(segs) = "**"
    THEN IF Tail(segs) = <<>> THEN path # <<>>
         ELSE \/ Pattern_matches_with(Tail(segs), path)
              \/ path # <<>> /\ Pattern_matches_with(segs, Tail(path))
  ELSE /\ path # <<>>
       /\ Head(segs) = "*" \/ Head(segs) = Head(path)
       /\ Pattern_matches_with(Tail(segs), Tail(path))

\* Project::rooted_pattern(pat): PathBuf::from(root).join(pat) when the project
\* has a root, else pat.
rooted_pattern(project, pat) ==
  IF project.root.some THEN project.root.v \o pat ELSE pat

\* iter().try_fold(false, |val, cov| Ok(val || Pattern::new(..)?.matches_with(..))):
\* `||` skips Pattern::new once val is true; a malformed pattern met while val
\* is still false ends the fold with Err.
RECURSIVE fold_matches(_, _, _, _)
fold_matches(project, covs, path, val) ==
  IF covs = <<>> THEN [ok |-> TRUE, val |-> val]
  ELSE IF val THEN fold_matches(project, Tail(covs), path, TRUE)
  ELSE LET p == Pattern_new(rooted_pattern(project, Head(covs)))
       IN IF ~p.ok THEN [ok |-> FALSE, val |-> FALSE]
          ELSE fold_matches(project, Tail(covs), path, Pattern_matches_with(p.val, path))

\* Project::does_cover(path) (config.rs 704-717).
Project_does_cover(project, path) ==
  LET excludes == fold_matches(project, project.excludes, path, FALSE)
  IN IF ~excludes.ok THEN [ok |-> FALSE, val |-> FALSE]
     ELSE IF excludes.val THEN [ok |-> TRUE, val |-> FALSE]
     ELSE fold_matches(project, project.includes, path, FALSE)

\* The patterns of the manifests tried: those of the test at config.rs
\* 1499-1538, a one-level pattern, and a malformed one.
CoverPatterns ==
  { <<"**", "*">>, <<"internal", "**", "*">>, <<"*">>, <<BadSegment, "*">> }

\* The paths asked about: under the root, outside it, under an excluded
\* directory.
CoverPaths ==
  { <<"base", "f">>, <<"f">>, <<"base", "internal", "f">>, <<"internal", "f">> }

PatternLists == UNION {[1..n -> CoverPatterns] : n \in 0..MaxPatterns}

\* q in another order.
Reordered(q) == {[i \in DOMAIN q |-> q[f[i]]] : f \in Permutations(DOMAIN q)}

\* does_cover(path) is called on a project.
Cover ==
  /\ query.op = "input"
  /\ query' = [query EXCEPT !.op = "covered",
                            !.covers = Project_does_cover(query.project, query.path)]
  /\ UNCHANGED <<swVars, repoVars, relVars, planVars, on_line_commit, line, pausefile,
                 old_tags, sizing>>

\* The same call on the project with its includes and excludes in another order.
CoverReordered ==
  /\ query.op = "covered"
  /\ \E inc \in Reordered(query.project.includes), exc \in Reordered(query.project.excludes) :
       query' = [query EXCEPT !.op = "reordered",
                   !.again = Project_does_cover(
                     [query.project EXCEPT !.includes = inc, !.excludes = exc], query.path)]
  /\ UNCHANGED <<swVars, repoVars, relVars, planVars, on_line_commit, line, pausefile,
                 old_tags, sizing>>

\* Nothing is staged, released or planned while a read-only function is tried.
ReadOnlyIdle ==
  /\ writes = <<>>
  /\ proj_writes = {}
  /\ tag_head = <<>>
  /\ tag_commit = <<>>
  /\ tag_head_or_last = <<>>
  /\ files = InitFiles
  /\ commits = <<InitFiles, InitFiles, InitFiles>>
  /\ tags = (PrevTag :> 1)
  /\ last_commits = <<>>
  /\ last = Queued("queue")
  /\ plan = <<>>
  /\ change_logs = {}
  /\ rel = NoRelease
  /\ PlanConsiderNew(NoConfig, "idle")
  /\ on_line_commit = None
  /\ line = NoLine
  /\ pausefile = None
  /\ old_tags = OldTagsEmpty
  /\ sizing = NoSizing

InitCover ==
  /\ ReadOnlyIdle
  /\ \E root \in {None, Some(<<"base">>)}, inc \in PatternLists, exc \in PatternLists,
        path \in CoverPaths :
       query = [op |-> "input",
                project |-> [root |-> root, includes |-> inc, excludes |-> exc],
                path |-> path, covers |-> None, again |-> None]

NextCover == Cover \/ CoverReordered

SpecCover == InitCover /\ [][NextCover]_vars

\* ------------------------------------------------------------------ ConfigFile::validate
\* A manifest is the sequence of its projects; a project here is its id, name,
\* tag_prefix (an Option of a string, the string a sequence of characters) and
\* depends.

\* The most projects in a manifest.
MaxProjects == 2

AsciiLetters == {"a", "Z"}
AsciiDigits == {"9"}
\* A letter outside ASCII: char::is_alphabetic is true of it, is_ascii is not.
OtherLetters == {"ï"}

is_alphabetic(c) == c \in AsciiLetters \cup OtherLetters
is_alphanumeric(c) == is_alphabetic(c) \/ c \in AsciiDigits
is_ascii(c) == c \notin OtherLetters

\* legal_tag without the is_ascii test.
legal_tag_anyLetter(prefix) ==
  \/ prefix = <<>>
  \/ /\ Head(prefix) = "_" \/ is_alphabetic(Head(prefix))
     /\ \A i \in DOMAIN prefix :
          prefix[i] = "_" \/ prefix[i] = "-" \/ is_alphanumeric(prefix[i])

\* legal_tag(prefix) (config.rs 638-642).
legal_tag(prefix) ==
  \/ prefix = <<>>
  \/ /\ Head(prefix) = "_" \/ is_alphabetic(Head(prefix))
     /\ \A i \in DOMAIN prefix :
          is_ascii(prefix[i])
            /\ (prefix[i] = "_" \/ prefix[i] = "-" \/ is_alphanumeric(prefix[i]))

ValidOk == [ok |-> TRUE, err |-> "none"]
ValidErr(e) == [ok |-> FALSE, err |-> e]

\* The loop of ConfigFile::validate (config.rs 597-617) from project i on, with
\* the ids, names and prefixes seen so far; nothing follows the loop but a
\* "TODO: no circular deps".
RECURSIVE validate_from(_, _, _, _, _)
validate_from(projects, i, ids, names, prefs) ==
  IF i > Len(projects) THEN ValidOk
  ELSE LET p == projects[i]
       IN IF p.id \in ids THEN ValidErr("id duplicated")
          ELSE IF p.name \in names THEN ValidErr("name duplicated")
          ELSE IF p.tag_prefix.some /\ p.tag_prefix.v \in prefs
            THEN ValidErr("tag_prefix duplicated")
          ELSE IF p.tag_prefix.some /\ ~legal_tag(p.tag_prefix.v)
            THEN ValidErr("illegal tag_prefix")
          ELSE validate_from(projects, i + 1, ids \cup {p.id}, names \cup {p.name},
                             IF p.tag_prefix.some THEN prefs \cup {p.tag_prefix.v} ELSE prefs)

\* ConfigFile::validate (config.rs 592-622).
validate(projects) == validate_from(projects, 1, {}, {}, {})

\* The tag prefixes tried: legal ones, the empty one, and ones that break the
\* rule in the first character or in a later one (config.rs 1393, 1407).
PrefixStrings ==
  { <<>>, <<"a">>, <<"_", "a">>, <<"Z", "-", "9">>, <<"9", "a">>, <<"-", "a">>,
    <<"a", "*">>, <<"a", "ï">>, <<"ï">> }

ManifestIds == 1..MaxProjects
ManifestNames == {"n1", "n2"}
NameOf == <<"n1", "n2", "n3", "n4">>

\* Manifests whose projects differ or agree in id, name and tag_prefix.
PrefixManifests ==
  UNION { [1..n -> [id : ManifestIds, name : ManifestNames,
                    tag_prefix : {None} \cup {Some(s) : s \in PrefixStrings},
                    depends : {{}}]] : n \in 0..MaxProjects }

\* Manifests of projects 1..n, told apart by id and name, with every depends
\* graph over their ids.
DependsManifests ==
  UNION { { [i \in 1..n |-> [id |-> i, name |-> NameOf[i], tag_prefix |-> None,
                             depends |-> d[i]]] : d \in [1..n -> SUBSET (1..n)] }
          : n \in 1..MaxProjects }

\* ConfigFile::read(data) (config.rs 585-589) on a manifest that parses:
\* validate, then the file is returned.
Read ==
  /\ query.op = "parsed"
  /\ query' = [query EXCEPT !.op = "read", !.result = validate(query.projects)]
  /\ UNCHANGED <<swVars, repoVars, relVars, planVars, on_line_commit, line, pausefile,
                 old_tags, sizing>>

InitRead ==
  /\ ReadOnlyIdle
  /\ \E m \in PrefixManifests \cup DependsManifests :
       query = [op |-> "parsed", projects |-> m, result |-> ValidOk]

NextRead == Read

SpecRead == InitRead /\ [][NextRead]_vars

\* --------------------------------------- consider_deps, one queue turn at a time
\* The state is that of consider_deps after its first loop (config.rs 437-449):
\* `query` holds the dependents map, the queue, the ids popped so far and the
\* incrs the call started from; incrs is the plan's.

\* The ids the HashSet dependents[id] may yield, in any of its orders.
DepsOrders(dependents, id) ==
  IF id \in DOMAIN dependents THEN Orders(dependents[id]) ELSE {<<>>}

\* One turn of `while let Some((id, size)) = queue.pop_front()` (config.rs 451-467).
DepsTurn ==
  /\ pc.at = "deps"
  /\ query.queue # <<>>
  /\ \E ord \in DepsOrders(query.dependents, Head(query.queue)[1]) :
       LET st == DepsPop([dependents |-> query.dependents, queue |-> query.queue,
                          incrs |-> incrs], ord)
       IN /\ incrs' = st.incrs
          /\ query' = [query EXCEPT !.dependents = st.dependents, !.queue = st.queue,
                                    !.popped = Append(@, Head(query.queue)[1])]
  /\ UNCHANGED <<swVars, repoVars, relVars, current, on_pr_sizes, on_ineffective, on_commit,
                 ineffective, pc, on_line_commit, line, pausefile, old_tags, sizing>>

\* The queue is empty: consider_deps returns Ok(()) (config.rs 469).
DepsReturn ==
  /\ pc.at = "deps"
  /\ query.queue = <<>>
  /\ pc' = [pc EXCEPT !.at = "sort"]
  /\ UNCHANGED <<swVars, repoVars, relVars, current, on_pr_sizes, on_ineffective, on_commit,
                 incrs, ineffective, on_line_commit, line, pausefile, old_tags, sizing, query>>

InitQueue ==
  /\ writes = <<>>
  /\ proj_writes = {}
  /\ tag_head = <<>>
  /\ tag_commit = <<>>
  /\ tag_head_or_last = <<>>
  /\ files = InitFiles
  /\ commits = <<InitFiles, InitFiles, InitFiles>>
  /\ tags = (PrevTag :> 1)
  /\ last_commits = <<>>
  /\ last = Queued("queue")
  /\ plan = <<>>
  /\ change_logs = {}
  /\ rel = NoRelease
  /\ current \in DepConfigs
  /\ on_pr_sizes = <<>>
  /\ on_ineffective = None
  /\ on_commit = None
  /\ incrs \in {<<>>} \cup {[id \in DepProjs |-> [NewIncr EXCEPT !.size = f[id]]] :
                             f \in [DepProjs -> {"Patch", "Major"}]}
  /\ ineffective = <<>>
  /\ pc = [NotPlanning EXCEPT !.at = "deps"]
  /\ on_line_commit = None
  /\ line = NoLine
  /\ pausefile = None
  /\ old_tags = OldTagsEmpty
  /\ sizing = NoSizing
  /\ query = [op |-> "consider_deps", before |-> incrs,
              dependents |-> DepsStart(current, incrs).dependents,
              queue |-> DepsStart(current, incrs).queue, popped |-> <<>>]

NextQueue == DepsTurn \/ DepsReturn

SpecQueue == InitQueue /\ [][NextQueue]_vars

\* The loop is a plain `while`: a turn that can be taken is taken.
SpecQueueFair == SpecQueue /\ WF_vars(NextQueue)

\* ------------------------------------------------------------------ claims
LastIsCommit == last.op = "commit"
TraceIdx(P(_)) == {i \in DOMAIN last.trace : P(last.trace[i])}
IsTagEv(e) == e.op = "tag"
IsCommitEv(e) == e.op = "commit"
IsPrevTagEv(e) == e.queue = "prev_tag"
IsHeadOrLastEv(e) == e.queue = "tag_head_or_last"
IsEarlierEv(e) == e.queue \in {"writes", "tag_head"}
QueuedTags(pre) == Len(pre.tag_head) + Len(pre.tag_head_or_last) + Cardinality(DOMAIN pre.tag_commit)

\* C1: when commit returns an error from a file write (step 1) or from the Git
\* commit (step 2), no tag was created or moved by the call, and after a write
\* error no Git commit was created either.
C1_NoTagOnEarlyError ==
  (LastIsCommit /\ last.err \in {"write", "commit"}) =>
    /\ tags = last.pre.tags
    /\ TraceIdx(IsTagEv) = {}
    /\ last.err = "write" => (HeadOid(commits) = last.pre.head /\ TraceIdx(IsCommitEv) = {})

\* C1 witness: a commit call with tags queued whose Git commit failed after
\* its writes were applied.
C1_Witness ==
  /\ LastIsCommit /\ last.err = "commit"
  /\ last.pre.tag_head_or_last # <<>>
  /\ TraceIdx(LAMBDA e : e.op = "write") # {}

\* C2: within one commit call prev_tag moves only after every queued tag was
\* applied, and a call that stops earlier (error or crash) leaves prev_tag where
\* it was.
C2_PrevTagLast ==
  LastIsCommit =>
    /\ \A i \in TraceIdx(IsPrevTagEv) :
         /\ i = Len(last.trace)
         /\ Cardinality(TraceIdx(IsTagEv)) = QueuedTags(last.pre) + 1
    /\ last.err # "none" =>
         /\ TraceIdx(IsPrevTagEv) = {}
         /\ (PrevTag \in DOMAIN tags) = (PrevTag \in DOMAIN last.pre.tags)
         /\ PrevTag \in DOMAIN tags => tags[PrevTag] = last.pre.tags[PrevTag]

\* C2 witness: a call that stopped in the middle of its tag queue, one tag
\* applied and prev_tag not at HEAD.
C2_Witness ==
  /\ LastIsCommit /\ last.err = "tag_head_or_last"
  /\ TraceIdx(IsTagEv) # {}
  /\ tags[PrevTag] # HeadOid(commits)

\* C3: a commit call creates at most one Git commit; when it does, every queued
\* write was applied before it, in insertion order, and the commit holds the
\* tree they left; a call that gets past step 2 created the commit exactly when
\* a write was queued.
C3_OneCommitIffWrites ==
  LastIsCommit =>
    LET cs == TraceIdx(IsCommitEv)
        n == Len(last.pre.writes)
    IN  /\ Cardinality(cs) <= 1
        /\ HeadOid(commits) = last.pre.head + Cardinality(cs)
        /\ \A i \in cs :
             /\ n > 0 /\ i = n + 1
             /\ \A j \in 1..n : last.trace[j] = WriteEv(last.pre.writes[j])
             /\ commits[HeadOid(commits)] = files
             /\ \A j \in 1..n : last.pre.writes[j].path \in DOMAIN files
        /\ last.err \notin {"write", "commit"} => ((cs # {}) <=> (n > 0))

\* C3 witness: a call with two writes queued that created its commit.
C3_Witness ==
  /\ LastIsCommit /\ Len(last.pre.writes) >= 2
  /\ TraceIdx(IsCommitEv) # {}

\* C6: every tag_head_or_last entry (tag, project) is put on HEAD when the
\* project had a write queued, else on last_commits[project] when known, else
\* on HEAD; HEAD is the commit this call created when it applied writes; no
\* other commit is tagged by the queue.
C6_HeadOrLastPlacement ==
  LastIsCommit =>
    LET base == Cardinality(TraceIdx(IsEarlierEv))
        q == last.pre.tag_head_or_last
    IN  \A i \in TraceIdx(IsHeadOrLastEv) :
          /\ i - base \in 1..Len(q)
          /\ last.trace[i].name = q[i - base][1]
          /\ LET proj == q[i - base][2]
                 oid == last.trace[i].oid
             IN  /\ proj \in last.pre.proj_writes => oid = HeadOid(commits)
                 /\ (proj \notin last.pre.proj_writes /\ proj \in DOMAIN last_commits)
                      => oid = last_commits[proj]
                 /\ (proj \notin last.pre.proj_writes /\ proj \notin DOMAIN last_commits)
                      => oid = HeadOid(commits)
                 /\ (proj \in last.pre.proj_writes /\ last.pre.writes # <<>>)
                      => oid = last.pre.head + 1
                 /\ (last.err = "none" /\ \A k \in TraceIdx(IsTagEv) :
                                            k > i => last.trace[k].name # last.trace[i].name)
                      => tags[last.trace[i].name] = oid

\* C6 witness: a successful call that tagged a written project on its new
\* commit and an unwritten project on its last commit.
C6_Witness ==
  /\ LastIsCommit /\ last.err = "none"
  /\ \E i, k \in TraceIdx(IsHeadOrLastEv) :
       /\ last.trace[i].oid = last.pre.head + 1
       /\ last.trace[k].oid \in LastOids
       /\ HeadOid(commits) = last.pre.head + 1

\* C7: whenever commit returns successfully prev_tag is on the current HEAD,
\* with or without queued writes and with or without a new commit.
C7_PrevTagAtHead ==
  (LastIsCommit /\ last.err = "none") =>
    (PrevTag \in DOMAIN tags /\ tags[PrevTag] = HeadOid(commits))

\* C7 witness: a successful call with nothing to write, which made no commit
\* and moved prev_tag to HEAD.
C7_Witness ==
  /\ LastIsCommit /\ last.err = "none"
  /\ last.pre.writes = <<>> /\ HeadOid(commits) = last.pre.head
  /\ last.pre.tags[PrevTag] # HeadOid(commits)

\* ---------------------------------------------------------- release claims
ReleaseDone == rel.op = "release"
ReleaseCommitted == ReleaseDone /\ rel.result = "ok" /\ ~rel.dry /\ DOMAIN rel.decided # {}

\* Lexicographic order on versions, component by component.
RECURSIVE VersLess(_, _)
VersLess(a, b) ==
  IF a = <<>> \/ b = <<>> THEN FALSE
  ELSE a[1] < b[1] \/ (a[1] = b[1] /\ VersLess(Tail(a), Tail(b)))

\* C4: a release whose plan holds a project of size Fail returns an error and
\* creates no commit, no tag and no file change, whichever project carries the
\* Fail and whether or not that project has a previously tagged version.
C4_FailAborts ==
  [][(rel'.op = "release" /\ rel.op = "idle"
        /\ \E p \in DOMAIN plan : plan[p] = "Fail")
       => (rel'.result = "err" /\ files' = files /\ commits' = commits /\ tags' = tags)]_vars

\* C5: after a release that committed, every project with a non-None size that
\* has a previous version holds apply(size, prev) if its current version was
\* less than that, else its current version; a project without a previous
\* version keeps its current version; the result is never below the target nor
\* below the version it had.
C5_ForwardOnly ==
  ReleaseCommitted /\ last.err = "none" =>
    \A p \in DOMAIN plan :
      plan[p] # "None" =>
        LET curt == rel.curt[p]
            prev == rel.prev[p]
            result == files[FileOf[p]]
        IN  /\ ~VersLess(result, curt)
            /\ IF prev.some
               THEN /\ apply(plan[p], prev.v).ok
                    /\ result = IF less_than(curt, apply(plan[p], prev.v).val).val
                                THEN apply(plan[p], prev.v).val ELSE curt
                    /\ ~VersLess(result, apply(plan[p], prev.v).val)
               ELSE result = curt

\* A release committed with one project raised to its target and another
\* forwarded at a current version above its target.
C5_Witness ==
  /\ ReleaseCommitted /\ last.err = "none"
  /\ \E p, q \in DOMAIN plan :
       /\ rel.decided[p].how = "changed" /\ files[FileOf[p]] # rel.curt[p]
       /\ rel.decided[q].how = "forward"
       /\ VersLess(apply(plan[q], rel.prev[q].v).val, rel.curt[q])

C14_PausedRefuses ==
  [][rel'.op \notin {"resume", "abort"} =>
       IF pausefile.some
       THEN /\ rel'.result = "err" /\ rel'.err = "paused"
            /\ files' = files /\ commits' = commits /\ tags' = tags
            /\ pausefile' = pausefile
       ELSE sanity_check(pausefile) /\ rel'.err # "paused"]_vars

\* A set command turned away while a release is paused.
C14_Witness ==
  /\ pausefile.some
  /\ rel.op = "set" /\ rel.err = "paused"
  /\ files # commits[HeadOid(commits)]

\* C15: a release with pause that reaches its commit leaves the pausefile
\* holding the queued tags and makes no commit and moves no tag, prev_tag
\* included; the commit and the tags come with the resume that follows; abort
\* removes the pausefile and makes no commit and moves no tag.
C15_PauseDefers ==
  [][/\ (rel'.op = "pause" /\ rel'.result = "ok" /\ ~rel'.dry /\ DOMAIN plan # {}) =>
          /\ pausefile'.some
          /\ pausefile'.v.sw.tag_head_or_last = last'.pre.tag_head_or_last
          /\ pausefile'.v.did = did_write(last'.pre.writes)
          /\ commits' = commits /\ tags' = tags
     /\ (rel'.op = "abort") =>
          /\ ~pausefile'.some
          /\ files' = files /\ commits' = commits /\ tags' = tags
     /\ (rel'.op = "resume" /\ rel'.result = "ok") =>
          /\ pausefile.some /\ ~pausefile'.some
          /\ commits' = IF pausefile.v.did THEN Append(commits, files) ELSE commits
          /\ tags'[PrevTag] = HeadOid(commits')
          /\ \A i \in DOMAIN pausefile.v.sw.tag_head_or_last :
               pausefile.v.sw.tag_head_or_last[i][1] \in DOMAIN tags'
     /\ (commits' # commits \/ tags' # tags) => rel'.op \in {"resume", "release", "set"}
    ]_vars

\* A paused release carried out by resume: the commit exists, prev_tag is on it.
C15_Witness ==
  /\ rel.op = "resume" /\ rel.result = "ok" /\ last.op = "resume"
  /\ HeadOid(commits) = last.pre.head + 1
  /\ tags[PrevTag] = HeadOid(commits)
  /\ last.pre.tag_head_or_last # <<>>

\* C16: a call that queues on the StateWrite changes the buffer and nothing
\* of the working tree, the commits or the tags; a release with --dry-run
\* leaves the working tree, the commits and every tag as they were, from its
\* first call to its last.
C16_QueueAndDryTouchNothing ==
  [][/\ (rel.op = "loop" /\ rel'.op = "loop") =>
          /\ files' = files /\ commits' = commits /\ tags' = tags
          /\ Len(writes') >= Len(writes)
          /\ Len(tag_head_or_last') >= Len(tag_head_or_last)
     /\ (rel.dry \/ rel'.dry) =>
          files' = files /\ commits' = commits /\ tags' = tags
    ]_vars

\* A finished dry run: writes and tags are queued, the repository is as it was.
C16_Witness ==
  /\ rel.op = "release" /\ rel.dry /\ rel.result = "ok"
  /\ writes # <<>> /\ tag_head_or_last # <<>>
  /\ HeadOid(commits) = Len(<<"old", "mid", "head">>)
  /\ files = commits[HeadOid(commits)]
  /\ DOMAIN tags = {PrevTag}

\* C17: release leaves a project of final size None untouched: it queues no
\* write of the project's version, no write of any file for the project and
\* no tag for the project.
C17_NoneUntouched ==
  \A p \in DOMAIN plan :
    plan[p] = "None" =>
      /\ p \notin proj_writes
      /\ \A i \in DOMAIN writes : writes[i].path \notin {FileOf[p], LogOf[p]}
      /\ \A i \in DOMAIN tag_head_or_last : tag_head_or_last[i][2] # p
      /\ rel.op = "release" => files[FileOf[p]] = rel.curt[p] /\ LogOf[p] \notin DOMAIN files

\* ----------------------------------------------------------- OldTags claim
\* C18: for every index T, project p and commit C of the walk,
\* T.slice_earlier(C).latest(p) equals T.not_after(p, C).
C18_SliceLatestIsNotAfter ==
  \A p \in Projs, C \in WalkOids :
    /\ slice_earlier(old_tags, C).ok
    /\ latest(slice_earlier(old_tags, C).val, p) = not_after(old_tags, p, C)

\* -------------------------------------------------------------- Size claims
\* The value a piece denotes when it is written in decimal digits only.
RECURSIVE DecVal(_, _)
DecVal(str, acc) ==
  IF str = <<>> THEN acc ELSE DecVal(Tail(str), acc * Len(Digits) + DigitVal(Head(str)))
IsDecimal(str) == str # <<>> /\ \A i \in DOMAIN str : IsDigit(str[i])
ThreeDecimal(v) ==
  Len(Split(v, <<>>)) = 3 /\ \A i \in 1..3 : IsDecimal(Split(v, <<>>)[i])
Comp(v, i) == DecVal(Split(v, <<>>)[i], 0)
Applied == sizing.op \in {"applied", "compared"}
Returned(a, b, c) ==
  /\ sizing.out.res = "ok"
  /\ Split(sizing.out.val, <<>>) = <<ToDec(a), ToDec(b), ToDec(c)>>

\* C19: for every v of three unsigned decimal components M.m.p, apply(Major, v)
\* is (M+1).0.0, apply(Minor, v) is M.(m+1).0, apply(Patch, v) is M.m.(p+1),
\* apply(None, v) is M.m.p and apply(Fail, v) is an error; for every other
\* string apply is an error.
C19_ApplyTable ==
  Applied =>
    IF ThreeDecimal(sizing.v)
    THEN CASE sizing.size = "Major" -> Returned(Comp(sizing.v, 1) + 1, 0, 0)
           [] sizing.size = "Minor" -> Returned(Comp(sizing.v, 1), Comp(sizing.v, 2) + 1, 0)
           [] sizing.size = "Patch" ->
                Returned(Comp(sizing.v, 1), Comp(sizing.v, 2), Comp(sizing.v, 3) + 1)
           [] sizing.size = "None" ->
                Returned(Comp(sizing.v, 1), Comp(sizing.v, 2), Comp(sizing.v, 3))
           [] sizing.size = "Fail" -> sizing.out.res = "err"
    ELSE sizing.out.res = "err"

\* C20: for every valid v and every size s other than Fail, apply(s, v)
\* returns and less_than(v, apply(s, v)) is true exactly when s is Major,
\* Minor or Patch, the largest component value included.
C20_ApplyRaises ==
  (Applied /\ Size_parts(sizing.v).ok /\ sizing.size # "Fail") =>
    /\ sizing.out.res = "ok"
    /\ sizing.op = "compared" =>
         /\ sizing.lt.ok
         /\ sizing.lt.val = (sizing.size \in {"Major", "Minor", "Patch"})

\* ---------------------------------------------------------- planner claims
SizeOrder == <<"None", "Patch", "Minor", "Major", "Fail">>
SizeRank(size) == CHOOSE i \in DOMAIN SizeOrder : SizeOrder[i] = size

\* The depends lists of cfg, cut down to ids that name projects, admit an
\* order in which every project comes after the projects it depends on.
Acyclic(cfg) ==
  \E r \in [ProjectIds(cfg) -> 1..Len(cfg.projects)] :
    \A i \in DOMAIN cfg.projects :
      \A p \in cfg.projects[i].depends \cap ProjectIds(cfg) : r[p] < r[cfg.projects[i].id]

DepsDone == pc.at = "sort"

\* C8: when the depends graph is acyclic, after consider_deps every project d
\* stands at a size at least that of every project p listed in d's depends.
C8_DepsDominate ==
  (DepsDone /\ Acyclic(current)) =>
    \A i \in DOMAIN current.projects :
      \A p \in current.projects[i].depends \cap ProjectIds(current) :
        SizeRank(SizesOf(current, incrs)[current.projects[i].id])
          >= SizeRank(SizesOf(current, incrs)[p])

Sorted == pc.at \in {"finish", "done"}

\* C9: after sort_and_dedup, in each project's ChangeLog an oid is non-duplicate
\* in at most one PR entry; that entry closed no later than any other entry
\* holding the oid, and every other entry has the oid marked duplicate (so no
\* oid is included twice); an oid that occurs is kept by some entry.
C9_DedupKeepsEarliest ==
  Sorted =>
    \A id \in DOMAIN incrs :
      LET es == incrs[id].change_log
      IN  \A i \in DOMAIN es : \A a \in DOMAIN es[i].pr.commits :
            LET c == es[i].pr.commits[a]
            IN  /\ \E j \in DOMAIN es : \E b \in DOMAIN es[j].pr.commits :
                     es[j].pr.commits[b].oid = c.oid /\ ~es[j].pr.commits[b].duplicate
                /\ ~c.duplicate =>
                     \A j \in DOMAIN es \ {i} : \A b \in DOMAIN es[j].pr.commits :
                       es[j].pr.commits[b].oid = c.oid =>
                         /\ es[j].pr.commits[b].duplicate
                         /\ ~included(es[j].pr.commits[b])
                         /\ es[i].pr.closed_at <= es[j].pr.closed_at

\* A ChangeLog in which the PR considered second closed first: it keeps the
\* shared, applicable oid and the PR considered first has it as a duplicate.
C9_Witness ==
  /\ Sorted
  /\ \E id \in DOMAIN incrs :
       LET es == incrs[id].change_log
       IN  \E i, j \in DOMAIN es : \E a \in DOMAIN es[i].pr.commits :
             \E b \in DOMAIN es[j].pr.commits :
               /\ i < j
               /\ es[i].pr.number > es[j].pr.number
               /\ es[i].pr.closed_at < es[j].pr.closed_at
               /\ es[i].pr.commits[a].oid = es[j].pr.commits[b].oid
               /\ included(es[i].pr.commits[a])
               /\ es[j].pr.commits[b].applies /\ es[j].pr.commits[b].duplicate

\* A commit of pr changes a file that a project of the manifest, as that
\* project stood at the commit, covers.
TouchesCovered(pr) ==
  \E i \in DOMAIN pr.commits : \E j \in DOMAIN pr.commits[i].files :
    \E k \in DOMAIN PrevConfig(pr.commits[i].id).projects :
      /\ PrevConfig(pr.commits[i].id).projects[k].id \in ProjectIds(current)
      /\ does_cover(PrevConfig(pr.commits[i].id).projects[k], pr.commits[i].files[j])
InIneffective(number) == \E i \in DOMAIN ineffective : ineffective[i].number = number
InChangeLog(number) ==
  \E id \in DOMAIN incrs : \E i \in DOMAIN incrs[id].change_log :
    incrs[id].change_log[i].pr.number = number

\* C10: a finished PR is in plan.ineffective iff none of its commits touches a
\* covered path; an ineffective PR is in no ChangeLog and raised no size; every
\* other finished PR is in at least one ChangeLog.
C10_IneffectiveIffUncovered ==
  \A k \in DOMAIN pc.done :
    LET r == pc.done[k]
    IN  /\ InIneffective(r.pr.number) <=> ~TouchesCovered(r.pr)
        /\ InIneffective(r.pr.number) => (~InChangeLog(r.pr.number) /\ r.after = r.before)
        /\ ~InIneffective(r.pr.number) => InChangeLog(r.pr.number)

\* Two PRs finished: one with commits, none on a covered path, is ineffective;
\* the other is in a ChangeLog.
C10_Witness ==
  \E k, m \in DOMAIN pc.done :
    /\ pc.done[k].pr.commits # <<>>
    /\ InIneffective(pc.done[k].pr.number)
    /\ InChangeLog(pc.done[m].pr.number)

\* ----------------------------------------------------------- C11 .. C20
KindOf(oid) == (CHOOSE i \in DOMAIN History : History[i].id = oid)
EndsWithBang(kind) == kind # <<>> /\ kind[Len(kind)] = "!"
\* The kind has a nominal size under the table: '!', its own entry, or "*".
KnownKind(sizes, kind) ==
  EndsWithBang(kind) \/ kind \in DOMAIN sizes \/ <<"*">> \in DOMAIN sizes
NominalSize(sizes, kind) ==
  IF EndsWithBang(kind) THEN "Major"
  ELSE IF kind \in DOMAIN sizes THEN sizes[kind] ELSE sizes[<<"*">>]
\* Every SizedPrCommit the planner holds: in the PR under way, in the
\* ChangeLogs, among the ineffective PRs.
HeldCommits ==
  UNION { {on_pr_sizes[id].commits[i] : i \in DOMAIN on_pr_sizes[id].commits} :
            id \in DOMAIN on_pr_sizes }
    \cup UNION { UNION { {incrs[id].change_log[e].pr.commits[i] :
                            i \in DOMAIN incrs[id].change_log[e].pr.commits} :
                          e \in DOMAIN incrs[id].change_log } :
                  id \in DOMAIN incrs }

\* C11: every commit the planner has sized carries Major if its kind ends with
\* '!', else sizes[kind], else sizes["*"]; planning has failed at a commit
\* exactly when that commit's kind has none of the three, and then no plan is
\* produced.
C11_NominalSize ==
  /\ \A c \in HeldCommits :
       /\ KnownKind(current.sizes, History[KindOf(c.oid)].kind)
       /\ c.size = NominalSize(current.sizes, History[KindOf(c.oid)].kind)
  /\ pc.at = "failed" =>
       (~KnownKind(current.sizes, on_commit.v.kind) /\ plan = <<>>)
  /\ pc.at = "in_commit" => KnownKind(current.sizes, on_commit.v.kind)

\* A '!' kind was sized Major although the table maps it to Minor, and
\* planning has failed at a later commit of unknown kind.
C11_Witness ==
  /\ pc.at = "failed"
  /\ \E c \in HeldCommits :
       /\ History[KindOf(c.oid)].kind \in DOMAIN current.sizes
       /\ current.sizes[History[KindOf(c.oid)].kind] = "Minor"
       /\ c.size = "Major"

\* The commit touches a path that the project id, as it stood at the commit,
\* covers.
TouchesProject(cdata, id) ==
  \E j \in DOMAIN cdata.files : \E k \in DOMAIN PrevConfig(cdata.id).projects :
    /\ PrevConfig(cdata.id).projects[k].id = id
    /\ does_cover(PrevConfig(cdata.id).projects[k], cdata.files[j])

\* C12: find_last_commits maps every current project to the first commit of
\* the newest-first walk that touches it (the one closest to HEAD), and maps
\* no project that no commit of the walk touches.
C12_LastIsMostRecent ==
  line.at = "done" =>
    \A id \in ProjectIds(current) :
      LET hits == {i \in DOMAIN line.walk : TouchesProject(line.walk[i], id)}
      IN  IF hits = {} THEN id \notin DOMAIN last_commits
          ELSE /\ id \in DOMAIN last_commits
               /\ last_commits[id] = line.walk[CHOOSE i \in hits : \A j \in hits : i <= j].id

\* ----------------------------------------------------------- C21 .. C30
\* The position of each size in Fail > Major > Minor > Patch > None.
RankOf(size) ==
  CASE size = "None" -> 0 [] size = "Patch" -> 1 [] size = "Minor" -> 2
    [] size = "Major" -> 3 [] size = "Fail" -> 4
Opposite(o) == CASE o = "Less" -> "Greater" [] o = "Greater" -> "Less" [] o = "Equal" -> "Equal"

\* C21: cmp on Size is the total order Fail > Major > Minor > Patch > None:
\* cmp(a, b) is the reverse of cmp(b, a), Equal only for equal sizes,
\* transitive; and max(s, None) = s, max(s, Fail) = Fail.
C21_SizeTotalOrder ==
  /\ sizing.op \in {"compared", "maxed"} =>
       /\ sizing.ab \in {"Less", "Equal", "Greater"}
       /\ sizing.ab = Opposite(sizing.ba)
       /\ (sizing.ab = "Equal") = (sizing.a = sizing.b)
       /\ (sizing.ab = "Less") = (RankOf(sizing.a) < RankOf(sizing.b))
       /\ (sizing.ab # "Greater" /\ sizing.bc # "Greater") => sizing.ac # "Greater"
       /\ (sizing.ab = "Less" /\ sizing.bc # "Greater") => sizing.ac = "Less"
  /\ sizing.op = "maxed" =>
       /\ sizing.with_none = sizing.a
       /\ sizing.with_fail = "Fail"
       /\ sizing.with_b \in {sizing.a, sizing.b}
       /\ RankOf(sizing.with_b) >= RankOf(sizing.a) /\ RankOf(sizing.with_b) >= RankOf(sizing.b)

\* Patch, Minor and Fail compared and Patch's maxima taken.
C21_Witness ==
  /\ sizing.op = "maxed"
  /\ sizing.a = "Patch" /\ sizing.b = "Minor" /\ sizing.c = "Fail"
  /\ sizing.ab = "Less" /\ sizing.ac = "Less"
  /\ sizing.with_none = "Patch" /\ sizing.with_b = "Minor"

\* A pattern of the project matches the path: it compiles and, rooted at the
\* project's root, matches.
CoverMatches(project, pat, path) ==
  /\ Pattern_new(rooted_pattern(project, pat)).ok
  /\ Pattern_matches_with(rooted_pattern(project, pat), path)

SomeMatches(project, covs, path) == \E i \in DOMAIN covs : CoverMatches(project, covs[i], path)

\* The path lies under the project's root.
UnderRoot(project, path) ==
  ~project.root.some \/
    /\ Len(path) > Len(project.root.v)
    /\ SubSeq(path, 1, Len(project.root.v)) = project.root.v

\* C22: does_cover(path) is true exactly when no exclude pattern matches the
\* path and at least one include pattern does; it is false whenever an exclude
\* matches and for a path outside the project's root; and the result is the
\* same with the includes and the excludes in another order.
C22_CoverExactAndOrderFree ==
  /\ query.op \in {"covered", "reordered"} =>
       LET p == query.project
           r == query.covers
           isTrue == r.ok /\ r.val
       IN /\ isTrue <=> /\ ~SomeMatches(p, p.excludes, query.path)
                        /\ SomeMatches(p, p.includes, query.path)
          /\ SomeMatches(p, p.excludes, query.path) => ~isTrue
          /\ ~UnderRoot(p, query.path) => ~isTrue
  /\ query.op = "reordered" => query.again = query.covers

\* tag_prefix matches [A-Za-z_][A-Za-z0-9_-]*.
MatchesTagPattern(s) ==
  /\ s # <<>>
  /\ Head(s) \in AsciiLetters \cup {"_"}
  /\ \A i \in DOMAIN s : s[i] \in AsciiLetters \cup AsciiDigits \cup {"_", "-"}

\* Two projects of the manifest share an id, a name or a tag_prefix.
SharesKey(m) ==
  \E i, j \in DOMAIN m :
    /\ i # j
    /\ \/ m[i].id = m[j].id
       \/ m[i].name = m[j].name
       \/ m[i].tag_prefix.some /\ m[j].tag_prefix.some /\ m[i].tag_prefix.v = m[j].tag_prefix.v

\* A project has a non-empty tag_prefix that breaks the pattern.
HasIllegalPrefix(m) ==
  \E i \in DOMAIN m :
    m[i].tag_prefix.some /\ m[i].tag_prefix.v # <<>> /\ ~MatchesTagPattern(m[i].tag_prefix.v)

\* C23: ConfigFile::read fails when two projects share an id, a name or a
\* tag_prefix, or a non-empty tag_prefix does not match
\* [A-Za-z_][A-Za-z0-9_-]*; a manifest whose ids, names and prefixes are
\* pairwise distinct and legal is accepted.
C23_ReadRejectsDuplicatesAndIllegal ==
  query.op = "read" =>
    (query.result.ok <=> ~SharesKey(query.projects) /\ ~HasIllegalPrefix(query.projects))

\* A manifest of two projects with distinct ids, names and prefixes has been
\* read and refused for a prefix that is legal but for a non-ASCII letter.
C23_Witness ==
  /\ query.op = "read"
  /\ Len(query.projects) = 2
  /\ ~SharesKey(query.projects)
  /\ query.projects[1].tag_prefix = Some(<<"Z", "-", "9">>)
  /\ query.projects[2].tag_prefix = Some(<<"a", "ï">>)
  /\ ~query.result.ok

\* Project j is reached from project i along at least one and at most k
\* depends edges of the manifest.
RECURSIVE DependsWithin(_, _, _, _)
DependsWithin(m, i, j, k) ==
  /\ k > 0
  /\ \/ m[j].id \in m[i].depends
     \/ \E h \in DOMAIN m : m[h].id \in m[i].depends /\ DependsWithin(m, h, j, k - 1)

\* The depends graph of the manifest has a cycle.
HasDependsCycle(m) == \E i \in DOMAIN m : DependsWithin(m, i, i, Len(m))

\* C24: a manifest whose depends graph has a cycle is rejected when it is
\* read, so every manifest that was read is acyclic.
C24_CyclicManifestRejected ==
  query.op = "read" /\ HasDependsCycle(query.projects) => ~query.result.ok

\* The place of a commit on the walk (1 is HEAD).
WalkPos(c) == CHOOSE i \in DOMAIN Walk : Walk[i] = c

\* The commit a tag of the walk sits on.
TagCommit(tag) == tag[1]

\* The commits that carry a tag of prefix p, as find_old_tags was given them.
TaggedCommits(p) ==
  IF p \in DOMAIN query.by_prefix_id THEN DOMAIN query.by_prefix_id[p] ELSE {}

\* The nearest commit at or before c in history (at or after it on the walk)
\* that carries a tag of p.
NearestTagged(p, c) ==
  CHOOSE d \in TaggedCommits(p) :
    /\ WalkPos(d) >= WalkPos(c)
    /\ \A e \in TaggedCommits(p) : WalkPos(e) >= WalkPos(c) => WalkPos(e) >= WalkPos(d)

\* C25: in the index find_old_tags builds, for every tagged prefix p and walked
\* commit C with not_after[p][C] = i: i is a valid index into by_proj[p],
\* by_proj[p][i] is a tag of p on the nearest commit at or before C, and
\* by_proj[p] runs latest-first along the walk.
C25_IndexPointsAtNearestTag ==
  old_tags = find_old_tags(query.by_prefix_id) =>
    \A p \in DOMAIN old_tags.not_after :
      /\ p \in DOMAIN old_tags.by_proj
      /\ \A c \in DOMAIN old_tags.not_after[p] :
           LET i == old_tags.not_after[p][c]
           IN /\ i >= 0 /\ i < Len(old_tags.by_proj[p])
              /\ \E d \in TaggedCommits(p) : WalkPos(d) >= WalkPos(c)
              /\ TagCommit(old_tags.by_proj[p][i + 1]) = NearestTagged(p, c)
              /\ \E k \in DOMAIN query.by_prefix_id[p][NearestTagged(p, c)] :
                   query.by_prefix_id[p][NearestTagged(p, c)][k] = old_tags.by_proj[p][i + 1]
      /\ \A j, k \in DOMAIN old_tags.by_proj[p] :
           j < k => WalkPos(TagCommit(old_tags.by_proj[p][j]))
                      <= WalkPos(TagCommit(old_tags.by_proj[p][k]))

\* A prefix with two tags on c2 and one on c1: c3 and c2 point at the first tag
\* of c2, c1 at the tag after them.
C25_Witness ==
  /\ old_tags = find_old_tags(query.by_prefix_id)
  /\ "p1" \in DOMAIN old_tags.not_after
  /\ DOMAIN old_tags.not_after["p1"] = {"c3", "c2", "c1"}
  /\ old_tags.not_after["p1"]["c3"] = 0
  /\ old_tags.not_after["p1"]["c1"] = 2

\* The commits of a ChangeLog entry that apply to the project and are not
\* duplicates.
Counted(e) == {a \in DOMAIN e.pr.commits : e.pr.commits[a].applies /\ ~e.pr.commits[a].duplicate}

\* C26: after sort_and_dedup, each ChangeLog entry's size is the maximum size
\* over its included commits (those that apply and are not duplicates), and
\* None when it has none; a duplicate commit never contributes.
C26_EntrySizeIsMaxOfIncluded ==
  Sorted =>
    \A id \in DOMAIN incrs :
      \A i \in DOMAIN incrs[id].change_log :
        LET e == incrs[id].change_log[i]
        IN  IF Counted(e) = {} THEN e.size = "None"
            ELSE /\ \E a \in Counted(e) : e.pr.commits[a].size = e.size
                 /\ \A a \in Counted(e) : SizeRank(e.pr.commits[a].size) <= SizeRank(e.size)

\* An entry holds an applicable duplicate that is larger than the entry's size.
C26_Witness ==
  /\ Sorted
  /\ \E id \in DOMAIN incrs :
       \E i \in DOMAIN incrs[id].change_log :
         LET e == incrs[id].change_log[i]
         IN  \E a \in DOMAIN e.pr.commits :
               /\ e.pr.commits[a].applies
               /\ e.pr.commits[a].duplicate
               /\ SizeRank(e.pr.commits[a].size) > SizeRank(e.size)

\* No id has been popped from the queue twice.
PoppedOnce ==
  \A i, j \in DOMAIN query.popped : i # j => query.popped[i] # query.popped[j]

\* C27: consider_deps terminates for every finite manifest, whether its depends
\* graph has cycles or names ids that are not projects, and every project is
\* dequeued at most once.
C27_QueueDrainsOnce == [](PoppedOnce) /\ <>(pc.at = "sort")

\* consider_deps has returned for a manifest with a cycle and an id that names
\* no project, after popping a project.
C27_Witness ==
  /\ pc.at = "sort"
  /\ ~Acyclic(current)
  /\ \E i \in DOMAIN current.projects : Ghost \in current.projects[i].depends
  /\ Len(query.popped) = 1

\* The projects that project id depends on, directly or through others.
TransDepends(cfg, id) ==
  LET i == CHOOSE k \in DOMAIN cfg.projects : cfg.projects[k].id = id
  IN  {cfg.projects[j].id : j \in {k \in DOMAIN cfg.projects :
                                     DependsWithin(cfg.projects, i, k, Len(cfg.projects))}}

\* C28: for an acyclic depends graph, whatever order the hash sets yield their
\* members in and the queue is filled in, consider_deps leaves each project at
\* the maximum of its own size before the call and those of all projects it
\* depends on, directly or transitively.
C28_DepsSizesAreClosure ==
  (pc.at = "sort" /\ Acyclic(current)) =>
    \A id \in ProjectIds(current) :
      LET from == {id} \cup TransDepends(current, id)
          was == SizesOf(current, query.before)
          is == SizesOf(current, incrs)[id]
      IN  /\ \E p \in from : was[p] = is
          /\ \A p \in from : SizeRank(was[p]) <= SizeRank(is)

\* C29: resume removes the pausefile, once read, before it carries out the
\* deferred commit and tags, so the pausefile does not exist when the release
\* commit is created and is in no commit; resume and abort called without a
\* pausefile fail, make no commit and move no tag.
C29_ResumeCommitsWithoutPausefile ==
  [][/\ \A c \in DOMAIN commits' : PauseFilename \notin DOMAIN commits'[c]
     /\ (rel'.op = "resume" /\ pausefile.some) => ~pausefile'.some
     /\ (rel'.op \in {"resume", "abort"} /\ ~pausefile.some) =>
          /\ rel'.result = "err"
          /\ commits' = commits /\ tags' = tags /\ files' = files
    ]_vars

\* A resume has made the release commit and the pausefile is gone; the commit
\* holds the files the paused release wrote.
C29_Witness ==
  /\ rel.op = "resume" /\ rel.result = "ok" /\ last.op = "resume"
  /\ HeadOid(commits) = last.pre.head + 1
  /\ ~pausefile.some
  /\ commits[HeadOid(commits)] = files
  /\ commits[HeadOid(commits)] # commits[last.pre.head]

\* The working tree holds writes that no commit holds.
Uncommitted(fs, cs) == fs # cs[HeadOid(cs)]

\* C30: over any sequence of commit calls on one StateWrite, a retry after a
\* call that failed at the Git commit included, no queued tag (a project's or
\* prev_tag) is applied while file writes of this StateWrite are uncommitted:
\* a call that moves a tag has first made the commit that holds them.
C30_NoTagOverUncommittedWrites ==
  [][(last'.op = "commit" /\ tags' # tags) => ~Uncommitted(files', commits')]_vars

====
